---- MODULE Spec2Model ----
(***************************************************************************)
(* A model of lift: the document pipeline (MarkdownProcessor.js and its    *)
(* older copy LiftProcessor.js: front-matter stripping, classification of  *)
(* relative paths, ordering of documents into the buckets index, important *)
(* and other), the directory scanner (DirectoryScanner.js), the outputs    *)
(* llms.txt and llms-full.txt (OutputGenerator, LiftProcessor), the index  *)
(* files (IndexGenerator) and the command line (parseArgs, main).  Texts and *)
(* paths are strings; the string functions of the code (toLowerCase,       *)
(* includes, endsWith, basename, trim, replace with the front-matter       *)
(* regular expression, localeCompare) are computed character by character. *)
(***************************************************************************)
EXTENDS Integers, Sequences, FiniteSets, TLC

VARIABLES
    impl,         \* the class whose methods run: "MarkdownProcessor" or "LiftProcessor"
    files,        \* the list of full paths handed to processFiles
    pos,          \* processFiles: number of entries of files already handled
    documents,    \* processFiles: the documents pushed so far
    ordered,      \* the OrderedSet returned by orderDocuments
    pc,           \* stage of the run: "start", "read", "empty", "done", "written",
                  \* "indexed", "failed", "exited" ("idle": no run)
    generateIndex, \* this.generateIndex
    written,      \* the files written at the output root, in the order of the writes
    llmsTxt,      \* the text written to llms.txt
    llmsFullTxt,  \* the text written to llms-full.txt
    content,      \* a text handed to stripFrontmatter
    stripped,     \* stripFrontmatter(content)
    restripped,   \* stripFrontmatter(stripped)
    cleanContent, \* stripped.trim(), the content stored in the Document
    spc,          \* stage of the text: "read", "stripped", "restripped", "trimmed"
    tree,            \* the directory tree below the scanned directory
    excludePatterns, \* this.excludePatterns of the scanner
    includeGlobs,    \* the include globs of the scanner
    excludeGlobs,    \* the exclude globs of the scanner
    denied,          \* the directories whose readdir fails
    stack,           \* scanDirectory: the calls in progress, innermost first
    listed,          \* the directories readdir has listed
    excludeCalls,    \* the calls of shouldExclude made: <<name, relativePath, result>>
    documentCalls,   \* the calls of isMarkdownFileFn made: <<name, result>>
    scanned,         \* the list of files the outermost scanDirectory returned
    scanPc,          \* stage of the scan: "scan", "done", "failed" ("idle": no scan)
    inputStat,       \* what stat(this.inputDir) finds: "directory", "file", "missing"
    failure,         \* the message of the Error process() has thrown ("": none)
    exitCode,        \* the exit code main() has asked for (0: none asked for)
    outputMade,      \* whether mkdir(this.outputDir) has been called
    args,            \* process.argv.slice(2)
    argi,            \* parseArgs: the loop index i, counted from 1
    options,         \* parseArgs: the options collected so far
    stderr,          \* the lines printed with console.error
    cliPc,           \* stage of main(): "parsing", "constructed", "exited" ("idle": no CLI)
    outputDir,       \* the output root given to the index generator
    stale,           \* the index.json files found at the start: directory :> content
    dirs,            \* the directories of the file system that mkdir has made
    indexFiles,      \* the index.json files of the file system: directory :> content
    calls,           \* generateDirectoryIndex: the calls in progress, innermost first
    visits,          \* the input directories generateDirectoryIndex was called for, in order
    writes,          \* the directories whose index.json this run has written, in order
    master,          \* the content of master-index.json (<<>>: not written)
    indexPc          \* stage of generateAll: "index", "master", "done", "failed" ("idle")

outVars == <<generateIndex, written, llmsTxt, llmsFullTxt>>
pipeVars == <<impl, files, pos, documents, ordered, pc,
              generateIndex, written, llmsTxt, llmsFullTxt>>
textVars == <<content, stripped, restripped, cleanContent, spc>>
scanVars == <<tree, excludePatterns, includeGlobs, excludeGlobs, denied, stack,
              listed, excludeCalls, documentCalls, scanned, scanPc>>
mainVars == <<inputStat, failure, exitCode, outputMade>>
cliVars == <<args, argi, options, stderr, cliPc>>
indexVars == <<outputDir, stale, dirs, indexFiles, calls, visits, writes, master, indexPc>>
vars == <<impl, files, pos, documents, ordered, pc,
          generateIndex, written, llmsTxt, llmsFullTxt,
          content, stripped, restripped, cleanContent, spc,
          tree, excludePatterns, includeGlobs, excludeGlobs, denied, stack,
          listed, excludeCalls, documentCalls, scanned, scanPc,
          inputStat, failure, exitCode, outputMade,
          args, argi, options, stderr, cliPc,
          outputDir, stale, dirs, indexFiles, calls, visits, writes, master, indexPc>>

----------------------------------------------------------------------------
(* Bounds *)

\* Largest number of lines of a text handed to stripFrontmatter.
MaxLines == 6

\* Largest number of files handed to processFiles.
MaxFiles == 3

----------------------------------------------------------------------------
(* Strings *)

\* The i-th character (1-based) of s, "" outside s.
Ch(s, i) == IF i >= 1 /\ i <= Len(s) THEN SubSeq(s, i, i) ELSE ""

\* s.slice(i-1): the characters of s from the i-th on.
From(s, i) == IF i > Len(s) THEN "" ELSE SubSeq(s, i, Len(s))

\* s.startsWith(pat, i-1): pat occurs in s at position i.
OccursAt(s, pat, i) ==
    /\ i >= 1
    /\ i + Len(pat) - 1 <= Len(s)
    /\ SubSeq(s, i, i + Len(pat) - 1) = pat

\* String.prototype.includes
includes(s, pat) == \E i \in 1..(Len(s) + 1) : OccursAt(s, pat, i)

\* String.prototype.endsWith
endsWith(s, pat) == OccursAt(s, pat, Len(s) - Len(pat) + 1)

UpperCase == "ABCDEFGHIJKLMNOPQRSTUVWXYZ"
LowerCase == "abcdefghijklmnopqrstuvwxyz"

\* The lower-case letter of each upper-case letter.
LowerOf ==
    [c \in {SubSeq(UpperCase, i, i) : i \in 1..Len(UpperCase)} |->
        LET i == CHOOSE i \in 1..Len(UpperCase) : SubSeq(UpperCase, i, i) = c
        IN  SubSeq(LowerCase, i, i)]

IsUpper(c) == c \in DOMAIN LowerOf

LowerChar(c) == IF IsUpper(c) THEN LowerOf[c] ELSE c

\* String.prototype.toLowerCase
RECURSIVE toLowerCase(_)
toLowerCase(s) ==
    IF s = "" THEN "" ELSE LowerChar(Ch(s, 1)) \o toLowerCase(From(s, 2))

\* The characters the regular expression class \s matches (of those that occur).
WhiteSpace == {" ", "\t", "\n", "\r"}

\* The characters after which ^ matches under the m flag.
LineTerminators == {"\n", "\r"}

IsSpace(c) == c \in WhiteSpace

\* String.prototype.trim
RECURSIVE trimStart(_)
trimStart(s) ==
    IF s # "" /\ IsSpace(Ch(s, 1)) THEN trimStart(From(s, 2)) ELSE s

RECURSIVE trimEnd(_)
trimEnd(s) ==
    IF s # "" /\ IsSpace(Ch(s, Len(s)))
    THEN trimEnd(SubSeq(s, 1, Len(s) - 1))
    ELSE s

trim(s) == trimEnd(trimStart(s))

----------------------------------------------------------------------------
(* stripFrontmatter: content.replace(/^---\s*\n[\s\S]*?\n---\s*\n?/m, '')   *)

\* Length of the longest run of \s characters of s starting at position i.
SpaceRun(s, i) ==
    CHOOSE k \in 0..(Len(s) + 1) :
        /\ \A d \in 0..(k - 1) : IsSpace(Ch(s, i + d))
        /\ ~IsSpace(Ch(s, i + k))

\* ^ under the m flag: the start of the text or just after a line terminator.
AtLineStart(s, p) == p = 1 \/ Ch(s, p - 1) \in LineTerminators

\* The positions just after a match of ^---\s*\n that starts at p: the greedy
\* \s* may give back characters until the one after it is a newline.
OpenerEnds(s, p) ==
    IF AtLineStart(s, p) /\ OccursAt(s, "---", p)
    THEN {p + 3 + k + 1 : k \in {k \in 0..SpaceRun(s, p + 3) : Ch(s, p + 3 + k) = "\n"}}
    ELSE {}

\* The positions j >= q at which \n--- occurs.
CloserStarts(s, q) == {j \in q..Len(s) : OccursAt(s, "\n---", j)}

Max(S) == CHOOSE x \in S : \A y \in S : y <= x
Min(S) == CHOOSE x \in S : \A y \in S : x <= y

\* The opener ends from which the rest of the expression can still match.
ViableOpeners(s, p) == {q \in OpenerEnds(s, p) : CloserStarts(s, q) # {}}

\* The expression matches at p.
MatchesAt(s, p) == ViableOpeners(s, p) # {}

\* The position just after the match at p: \s* is greedy (the longest opener
\* that still lets the rest match), [\s\S]*? is lazy (the first \n--- from
\* there), and the final \s* takes every whitespace character that follows,
\* so that \n? has nothing left to take.
MatchEnd(s, p) ==
    LET q == Max(ViableOpeners(s, p))
        j == Min(CloserStarts(s, q))
    IN  j + 4 + SpaceRun(s, j + 4)

\* stripFrontmatter with the closing delimiter made optional, as in
\* /^---\s*\n([\s\S]*?\n---\s*\n?)?/m: an opening line alone is removed.
stripFrontmatterOptionalCloser(s) ==
    LET starts == {p \in 1..Len(s) : OpenerEnds(s, p) # {}}
    IN  IF starts = {}
        THEN s
        ELSE LET p == Min(starts)
                 end == IF MatchesAt(s, p) THEN MatchEnd(s, p) ELSE Max(OpenerEnds(s, p))
             IN  SubSeq(s, 1, p - 1) \o From(s, end)

\* replace without the g flag: the leftmost match only.
stripFrontmatter(s) ==
    LET starts == {p \in 1..Len(s) : MatchesAt(s, p)}
    IN  IF starts = {}
        THEN s
        ELSE LET p == Min(starts)
             IN  SubSeq(s, 1, p - 1) \o From(s, MatchEnd(s, p))

----------------------------------------------------------------------------
(* Texts handed to stripFrontmatter: up to MaxLines lines joined by "\n" *)

LineKinds == {"---", "---x", "x", ""}

RECURSIVE TextsOf(_)
TextsOf(n) ==
    IF n = 1
    THEN LineKinds
    ELSE {t \o "\n" \o l : t \in TextsOf(n - 1), l \in LineKinds}

Texts == {""} \cup UNION {TextsOf(n) : n \in 1..MaxLines}

----------------------------------------------------------------------------
(* The text harness: one text is stripped, stripped again, and trimmed *)

TextInit ==
    /\ content \in Texts
    /\ stripped = ""
    /\ restripped = ""
    /\ cleanContent = ""
    /\ spc = "read"

\* processFiles, line 24: this.stripFrontmatter(content)
StripFrontmatter ==
    /\ spc = "read"
    /\ stripped' = stripFrontmatter(content)
    /\ spc' = "stripped"
    /\ UNCHANGED <<content, restripped, cleanContent>>
    /\ UNCHANGED <<pipeVars, scanVars>>
    /\ UNCHANGED <<mainVars, cliVars, indexVars>>

\* A second application of stripFrontmatter, to the result of the first.
StripAgain ==
    /\ spc = "stripped"
    /\ restripped' = stripFrontmatter(stripped)
    /\ spc' = "restripped"
    /\ UNCHANGED <<content, stripped, cleanContent>>
    /\ UNCHANGED <<pipeVars, scanVars>>
    /\ UNCHANGED <<mainVars, cliVars, indexVars>>

\* processFiles, line 24: .trim() of the stripped text
Trim ==
    /\ spc = "stripped"
    /\ cleanContent' = trim(stripped)
    /\ spc' = "trimmed"
    /\ UNCHANGED <<content, stripped, restripped>>
    /\ UNCHANGED <<pipeVars, scanVars>>
    /\ UNCHANGED <<mainVars, cliVars, indexVars>>

PipeIdle ==
    /\ impl = "MarkdownProcessor"
    /\ files = <<>>
    /\ pos = 0
    /\ documents = <<>>
    /\ ordered = [index |-> <<>>, important |-> <<>>, other |-> <<>>, all |-> <<>>]
    /\ pc = "idle"
    /\ generateIndex = FALSE
    /\ written = <<>>
    /\ llmsTxt = ""
    /\ llmsFullTxt = ""

\* No scan is in progress.
ScanIdle ==
    /\ tree = "empty"
    /\ excludePatterns = {}
    /\ includeGlobs = {}
    /\ excludeGlobs = {}
    /\ denied = {}
    /\ stack = <<>>
    /\ listed = {}
    /\ excludeCalls = {}
    /\ documentCalls = {}
    /\ scanned = <<>>
    /\ scanPc = "idle"

\* process() is not run by main().
MainIdle ==
    /\ inputStat = "directory"
    /\ failure = ""
    /\ exitCode = 0
    /\ outputMade = FALSE

\* No command line is being parsed.
CliIdle ==
    /\ args = <<>>
    /\ argi = 0
    /\ options = <<>>
    /\ stderr = <<>>
    /\ cliPc = "idle"

\* No index is being generated.
IndexIdle ==
    /\ outputDir = ""
    /\ stale = <<>>
    /\ dirs = {}
    /\ indexFiles = <<>>
    /\ calls = <<>>
    /\ visits = <<>>
    /\ writes = <<>>
    /\ master = <<>>
    /\ indexPc = "idle"

RestIdle == MainIdle /\ CliIdle /\ IndexIdle

TextNext ==
    \/ StripFrontmatter
    \/ StripAgain
    \/ Trim

StripInit == PipeIdle /\ TextInit /\ ScanIdle /\ RestIdle

SpecStrip == StripInit /\ [][TextNext]_vars

----------------------------------------------------------------------------
(* Paths *)

\* path.basename (posix): what follows the last "/".
basename(path) ==
    LET slashes == {i \in 1..Len(path) : Ch(path, i) = "/"}
    IN  IF slashes = {} THEN path ELSE From(path, Max(slashes) + 1)

\* relativePath.replace(/\\/g, '/')
RECURSIVE normalizeSeparators(_)
normalizeSeparators(s) ==
    IF s = "" THEN ""
    ELSE (IF Ch(s, 1) = "\\" THEN "/" ELSE Ch(s, 1)) \o normalizeSeparators(From(s, 2))

\* The input directory of the processor (this.inputDir).
InputDir == "/in"

\* path.join(dir, name)
join(dir, name) == dir \o "/" \o name

\* path.relative(from, to) for a path to below the directory from.
relative(from, to) == From(to, Len(from) + 2)

----------------------------------------------------------------------------
(* Classification: isIndexDocument, isImportantDocument, getIndexPriority *)

\* MarkdownProcessor.isIndexDocument
MarkdownProcessor_isIndexDocument(path) ==
    LET lower == toLowerCase(path)
        filename == toLowerCase(basename(path))
    IN  \/ filename = "index.md"
        \/ filename = "index.mdx"
        \/ filename = "index.html"
        \/ filename = "readme.md"
        \/ filename = "readme.mdx"
        \/ filename = "readme.html"
        \/ filename = "home.md"
        \/ filename = "home.mdx"
        \/ filename = "home.html"
        \/ includes(lower, "/index.")
        \/ includes(lower, "/readme.")
        \/ includes(lower, "/home.")

\* LiftProcessor.isIndexDocument
LiftProcessor_isIndexDocument(path) ==
    LET lower == toLowerCase(path)
        filename == toLowerCase(basename(path))
    IN  \/ filename = "index.md"
        \/ filename = "index.mdx"
        \/ filename = "readme.md"
        \/ filename = "readme.mdx"
        \/ filename = "home.md"
        \/ filename = "home.mdx"
        \/ includes(lower, "/index.")
        \/ includes(lower, "/readme.")
        \/ includes(lower, "/home.")

\* MarkdownProcessor.isImportantDocument: importantPatterns
MarkdownProcessor_importantPatterns ==
    {"doc", "docs", "catalog", "catalogs", "tutorial", "tutorials",
     "intro", "introduction", "getting-started", "get-started",
     "quickstart", "quick-start", "start"}

\* LiftProcessor.isImportantDocument: importantPatterns
LiftProcessor_importantPatterns ==
    {"doc", "docs", "guide", "guides", "tutorial", "tutorials",
     "intro", "introduction", "getting-started", "get-started",
     "quickstart", "quick-start", "start"}

\* MarkdownProcessor.isImportantDocument
MarkdownProcessor_isImportantDocument(path) ==
    LET lower == toLowerCase(path)
    IN  \E pattern \in MarkdownProcessor_importantPatterns : includes(lower, pattern)

\* LiftProcessor.isImportantDocument
LiftProcessor_isImportantDocument(path) ==
    LET lower == toLowerCase(path)
    IN  \E pattern \in LiftProcessor_importantPatterns : includes(lower, pattern)

\* MarkdownProcessor.getIndexPriority
MarkdownProcessor_getIndexPriority(path) ==
    LET filename == toLowerCase(basename(path))
    IN  IF filename = "index.md" \/ filename = "index.mdx" \/ filename = "index.html" THEN 1
        ELSE IF filename = "readme.md" \/ filename = "readme.mdx" \/ filename = "readme.html" THEN 2
        ELSE IF filename = "home.md" \/ filename = "home.mdx" \/ filename = "home.html" THEN 3
        ELSE 4

\* LiftProcessor.getIndexPriority
LiftProcessor_getIndexPriority(path) ==
    LET filename == toLowerCase(basename(path))
    IN  IF filename = "index.md" \/ filename = "index.mdx" THEN 1
        ELSE IF filename = "readme.md" \/ filename = "readme.mdx" THEN 2
        ELSE IF filename = "home.md" \/ filename = "home.mdx" THEN 3
        ELSE 4

----------------------------------------------------------------------------
(* The files of the input directory *)

\* The relative paths of the document files the input directory can hold.
PathPool ==
    {"index.md", "README.md", "home.mdx", "index.html", "docs/index.html",
     "x/readme.d/a.md", "guide.md", "docs/Setup.md", "intro.md",
     "Zeta.md", "gone.md"}

\* The files whose read fails (they do not exist when they are read).
Unreadable == {"gone.md"}

\* What readFile returns for the file with relative path p.
FileContent(p) ==
    "---\ntitle: " \o p \o "\n---\n\n# " \o p \o "\n"
        \o (IF p = "docs/Setup.md" THEN "\n## Usage\n\nRun it.\n" ELSE "")

\* The lists handed to processFiles: the full paths of up to MaxFiles
\* distinct files, in any order (a scan lists each file once).
FileLists ==
    UNION {{[i \in 1..n |-> join(InputDir, f[i])] :
                f \in {g \in [1..n -> PathPool] :
                          \A i, j \in 1..n : i # j => g[i] # g[j]}} :
           n \in 0..MaxFiles}

Impls == {"MarkdownProcessor", "LiftProcessor"}

\* What the methods return for the paths of the pool, evaluated once per path.
IndexTable ==
    [c \in Impls |-> [path \in PathPool |->
        IF c = "MarkdownProcessor"
        THEN MarkdownProcessor_isIndexDocument(path)
        ELSE LiftProcessor_isIndexDocument(path)]]

ImportantTable ==
    [c \in Impls |-> [path \in PathPool |->
        IF c = "MarkdownProcessor"
        THEN MarkdownProcessor_isImportantDocument(path)
        ELSE LiftProcessor_isImportantDocument(path)]]

PriorityTable ==
    [c \in Impls |-> [path \in PathPool |->
        IF c = "MarkdownProcessor"
        THEN MarkdownProcessor_getIndexPriority(path)
        ELSE LiftProcessor_getIndexPriority(path)]]

\* this.isIndexDocument, this.isImportantDocument, this.getIndexPriority of
\* the object whose class is impl.
isIndexDocument(path) == IndexTable[impl][path]

isImportantDocument(path) == ImportantTable[impl][path]

getIndexPriority(path) == PriorityTable[impl][path]

\* The Document processFiles builds from the file with relative path p:
\* the separators normalised, the front matter stripped, the rest trimmed.
DocumentTable ==
    [p \in PathPool |->
        [relativePath |-> normalizeSeparators(p),
         content |-> trim(stripFrontmatter(FileContent(p))),
         fullPath |-> join(InputDir, p)]]

----------------------------------------------------------------------------
(* Sorting: Array.prototype.sort with the comparators of orderDocuments *)

\* The characters of a path in the order of their primary collation weight
\* (punctuation, then digits, then letters; case is a lower-level difference).
CollationOrder == "_-./0123456789abcdefghijklmnopqrstuvwxyz"

\* The primary weight of each character of CollationOrder: its place in it.
WeightOf ==
    [c \in {SubSeq(CollationOrder, i, i) : i \in 1..Len(CollationOrder)} |->
        CHOOSE i \in 1..Len(CollationOrder) : SubSeq(CollationOrder, i, i) = c]

\* The primary weight of a character, 0 for one the collation ignores.
Weight(c) == IF LowerChar(c) \in DOMAIN WeightOf THEN WeightOf[LowerChar(c)] ELSE 0

\* The comparison of a and b by primary weights alone.
RECURSIVE comparePrimary(_, _)
comparePrimary(a, b) ==
    IF a = "" /\ b = "" THEN 0
    ELSE IF a = "" THEN -1
    ELSE IF b = "" THEN 1
    ELSE IF Weight(Ch(a, 1)) < Weight(Ch(b, 1)) THEN -1
    ELSE IF Weight(Ch(a, 1)) > Weight(Ch(b, 1)) THEN 1
    ELSE comparePrimary(From(a, 2), From(b, 2))

\* The comparison by case of two strings with equal primary weights: at the
\* first difference the lower-case letter comes first.
RECURSIVE compareCase(_, _)
compareCase(a, b) ==
    IF a = "" \/ b = "" THEN 0
    ELSE IF Ch(a, 1) = Ch(b, 1) THEN compareCase(From(a, 2), From(b, 2))
    ELSE IF IsUpper(Ch(b, 1)) THEN -1
    ELSE 1

\* String.prototype.localeCompare
localeCompare(a, b) ==
    LET primary == comparePrimary(a, b)
    IN  IF primary # 0 THEN primary ELSE compareCase(a, b)

\* localeCompare for the paths of the pool, evaluated once per pair.
LocaleCompareTable == [a \in PathPool, b \in PathPool |-> localeCompare(a, b)]

\* The comparator of indexDocs.sort: the difference of the priorities.
compareIndex(a, b) == getIndexPriority(a.relativePath) - getIndexPriority(b.relativePath)

\* The comparator of the path sorts with its arguments swapped.
comparePathSwapped(a, b) == LocaleCompareTable[b.relativePath, a.relativePath]

\* The comparator of importantDocs.sort and otherDocs.sort.
comparePath(a, b) == LocaleCompareTable[a.relativePath, b.relativePath]

compare(by, a, b) == IF by = "priority" THEN compareIndex(a, b) ELSE comparePath(a, b)

\* Array.prototype.sort, which is stable: an element moves behind the
\* elements that compare smaller and behind the equal ones that stood before it.
sort(s, by) ==
    LET cmp == [i \in 1..Len(s), j \in 1..Len(s) |-> compare(by, s[i], s[j])]
        place == [i \in 1..Len(s) |->
                    1 + Cardinality({j \in 1..Len(s) : cmp[j, i] < 0})
                      + Cardinality({j \in 1..(i - 1) : cmp[j, i] = 0})]
    IN  [k \in 1..Len(s) |-> s[CHOOSE i \in 1..Len(s) : place[i] = k]]

----------------------------------------------------------------------------
(* orderDocuments *)

EmptyOrderedSet == [index |-> <<>>, important |-> <<>>, other |-> <<>>, all |-> <<>>]

\* The three buckets of orderDocuments before they are sorted.
indexBucket(docs) == SelectSeq(docs, LAMBDA doc : isIndexDocument(doc.relativePath))

importantBucket(docs) ==
    SelectSeq(docs, LAMBDA doc : /\ ~isIndexDocument(doc.relativePath)
                                 /\ isImportantDocument(doc.relativePath))

otherBucket(docs) ==
    SelectSeq(docs, LAMBDA doc : /\ ~isIndexDocument(doc.relativePath)
                                 /\ ~isImportantDocument(doc.relativePath))

\* orderDocuments with "if" in place of "else if": an index document that is
\* also important is pushed to both buckets.
orderDocumentsWithoutElse(docs) ==
    LET indexDocs == sort(indexBucket(docs), "priority")
        importantDocs ==
            sort(SelectSeq(docs, LAMBDA doc : isImportantDocument(doc.relativePath)), "path")
        otherDocs == sort(otherBucket(docs), "path")
    IN  [index |-> indexDocs,
         important |-> importantDocs,
         other |-> otherDocs,
         all |-> indexDocs \o importantDocs \o otherDocs]

\* orderDocuments with the buckets spread into all in the wrong order.
orderDocumentsOtherBeforeImportant(docs) ==
    LET indexDocs == sort(indexBucket(docs), "priority")
        importantDocs == sort(importantBucket(docs), "path")
        otherDocs == sort(otherBucket(docs), "path")
    IN  [index |-> indexDocs,
         important |-> importantDocs,
         other |-> otherDocs,
         all |-> indexDocs \o otherDocs \o importantDocs]

\* orderDocuments: bucket, sort each bucket, concatenate.
orderDocuments(docs) ==
    LET indexDocs == sort(indexBucket(docs), "priority")
        importantDocs == sort(importantBucket(docs), "path")
        otherDocs == sort(otherBucket(docs), "path")
    IN  [index |-> indexDocs,
         important |-> importantDocs,
         other |-> otherDocs,
         all |-> indexDocs \o importantDocs \o otherDocs]

----------------------------------------------------------------------------
(* A run: processFiles on a list of files, then orderDocuments *)

PipeInit ==
    /\ impl \in Impls
    /\ files = <<>>
    /\ pos = 0
    /\ documents = <<>>
    /\ ordered = EmptyOrderedSet
    /\ pc = "start"
    /\ generateIndex = FALSE
    /\ written = <<>>
    /\ llmsTxt = ""
    /\ llmsFullTxt = ""

\* processFiles(filePaths) is called: by process() with the result of the
\* scan, or by any caller of the public method with a list of its own.
ReceiveFiles ==
    /\ pc = "start"
    /\ files' \in FileLists
    /\ pc' = "read"
    /\ UNCHANGED <<impl, pos, documents, ordered>>
    /\ UNCHANGED outVars
    /\ UNCHANGED <<textVars, scanVars>>
    /\ UNCHANGED <<mainVars, cliVars, indexVars>>

\* process() without the return for an empty scan result: it goes on to
\* order and write.
NoFilesGoesOn ==
    /\ pc = "read"
    /\ Len(files) = 0
    /\ ordered' = orderDocuments(documents)
    /\ pc' = "done"
    /\ UNCHANGED <<impl, files, pos, documents>>
    /\ UNCHANGED outVars
    /\ UNCHANGED <<textVars, scanVars>>
    /\ UNCHANGED <<mainVars, cliVars, indexVars>>

\* process(): if (files.length === 0) return
NoFiles ==
    /\ pc = "read"
    /\ Len(files) = 0
    /\ pc' = "empty"
    /\ UNCHANGED <<impl, files, pos, documents, ordered>>
    /\ UNCHANGED outVars
    /\ UNCHANGED <<textVars, scanVars>>
    /\ UNCHANGED <<mainVars, cliVars, indexVars>>

\* processFiles whose loop ends at the first read that fails.
ProcessFileStopsAtFailure ==
    /\ pc = "read"
    /\ pos < Len(files)
    /\ LET filePath == files[pos + 1]
           relativePath == relative(InputDir, filePath)
       IN  IF relativePath \in Unreadable
           THEN documents' = documents /\ pos' = Len(files)
           ELSE documents' = Append(documents, DocumentTable[relativePath])
                /\ pos' = pos + 1
    /\ UNCHANGED <<impl, files, ordered, pc>>
    /\ UNCHANGED outVars
    /\ UNCHANGED <<textVars, scanVars>>
    /\ UNCHANGED <<mainVars, cliVars, indexVars>>

\* processFiles: one turn of the loop; a failed read is logged and skipped.
ProcessFile ==
    /\ pc = "read"
    /\ pos < Len(files)
    /\ LET filePath == files[pos + 1]
           relativePath == relative(InputDir, filePath)
       IN  IF relativePath \in Unreadable
           THEN documents' = documents
           ELSE documents' = Append(documents, DocumentTable[relativePath])
    /\ pos' = pos + 1
    /\ UNCHANGED <<impl, files, ordered, pc>>
    /\ UNCHANGED outVars
    /\ UNCHANGED <<textVars, scanVars>>
    /\ UNCHANGED <<mainVars, cliVars, indexVars>>

\* process(): const orderedDocs = this.orderDocuments(documents)
OrderDocuments ==
    /\ pc = "read"
    /\ Len(files) > 0
    /\ pos = Len(files)
    /\ ordered' = orderDocuments(documents)
    /\ pc' = "done"
    /\ UNCHANGED <<impl, files, pos, documents>>
    /\ UNCHANGED outVars
    /\ UNCHANGED <<textVars, scanVars>>
    /\ UNCHANGED <<mainVars, cliVars, indexVars>>

----------------------------------------------------------------------------
(* The outputs: generateOutputs of LiftProcessor and of OutputGenerator   *)
(* (the same code, line for line)                                         *)

\* generateOutputs: const projectName = basename(this.inputDir)
projectName == basename(InputDir)

\* The two lines every output begins with.
header(name) == "# " \o name \o "\n\n" \o "> Documentation for " \o name \o "\n\n"

\* generateLlmsIndex: the loop that adds one link line per document.
RECURSIVE linkLines(_)
linkLines(docs) ==
    IF docs = <<>> THEN ""
    ELSE "- [" \o Head(docs).relativePath \o "](" \o Head(docs).relativePath \o ")\n"
            \o linkLines(Tail(docs))

\* generateLlmsIndex that writes both section headers whatever the buckets hold.
generateLlmsIndexAlwaysHeaders(name, orderedDocs) ==
    header(name)
       \o "## Core Documentation\n"
       \o linkLines(orderedDocs.index \o orderedDocs.important) \o "\n"
       \o "## Optional\n" \o linkLines(orderedDocs.other) \o "\n"

\* generateLlmsIndex that lists the important documents before the index ones.
generateLlmsIndexImportantFirst(name, orderedDocs) ==
    LET coreDocuments == orderedDocs.important \o orderedDocs.index
    IN  header(name)
           \o (IF Len(coreDocuments) > 0
               THEN "## Core Documentation\n" \o linkLines(coreDocuments) \o "\n"
               ELSE "")
           \o (IF Len(orderedDocs.other) > 0
               THEN "## Optional\n" \o linkLines(orderedDocs.other) \o "\n"
               ELSE "")

\* generateLlmsIndex(projectName, orderedDocs)
generateLlmsIndex(name, orderedDocs) ==
    LET coreDocuments == orderedDocs.index \o orderedDocs.important
    IN  header(name)
           \o (IF Len(coreDocuments) > 0
               THEN "## Core Documentation\n" \o linkLines(coreDocuments) \o "\n"
               ELSE "")
           \o (IF Len(orderedDocs.other) > 0
               THEN "## Optional\n" \o linkLines(orderedDocs.other) \o "\n"
               ELSE "")

\* generateLlmsFull: the loop that adds one section per document.
RECURSIVE sections(_)
sections(docs) ==
    IF docs = <<>> THEN ""
    ELSE "## " \o Head(docs).relativePath \o "\n\n"
            \o Head(docs).content \o "\n\n"
            \o "---\n\n"
            \o sections(Tail(docs))

\* generateLlmsFull given the documents sorted by path, whatever their bucket.
generateLlmsFullSortedByPath(name, docs) ==
    header(name) \o sections(sort(docs, "path"))

\* generateLlmsFull(projectName, documents)
generateLlmsFull(name, docs) == header(name) \o sections(docs)

\* generateOutputs called as soon as the scan has returned files.
GenerateOutputsBeforeReading ==
    /\ pc = "read"
    /\ Len(files) > 0
    /\ outputMade' = TRUE
    /\ llmsTxt' = generateLlmsIndex(projectName, ordered)
    /\ llmsFullTxt' = generateLlmsFull(projectName, ordered.all)
    /\ written' = written \o <<"llms.txt", "llms-full.txt">>
    /\ pc' = "written"
    /\ UNCHANGED <<impl, files, pos, documents, ordered, generateIndex>>
    /\ UNCHANGED <<inputStat, failure, exitCode>>
    /\ UNCHANGED <<textVars, scanVars, cliVars, indexVars>>

\* process(): await this.generateOutputs(orderedDocs): the output directory
\* is made, both texts are generated, then llms.txt and llms-full.txt are
\* written in that order.
GenerateOutputs ==
    /\ pc = "done"
    /\ outputMade' = TRUE
    /\ llmsTxt' = generateLlmsIndex(projectName, ordered)
    /\ llmsFullTxt' = generateLlmsFull(projectName, ordered.all)
    /\ written' = written \o <<"llms.txt", "llms-full.txt">>
    /\ pc' = "written"
    /\ UNCHANGED <<impl, files, pos, documents, ordered, generateIndex>>
    /\ UNCHANGED <<inputStat, failure, exitCode>>
    /\ UNCHANGED <<textVars, scanVars, cliVars, indexVars>>

\* generateIndexFiles called whatever this.generateIndex is.
GenerateIndexFilesUnasked ==
    /\ pc = "written"
    /\ written' = written \o <<"index.json", "master-index.json">>
    /\ pc' = "indexed"
    /\ UNCHANGED <<impl, files, pos, documents, ordered, generateIndex,
                   llmsTxt, llmsFullTxt>>
    /\ UNCHANGED <<textVars, scanVars>>
    /\ UNCHANGED <<mainVars, cliVars, indexVars>>

\* process(): if (this.generateIndex) await this.generateIndexFiles(): of
\* the files it writes, those of the output root are the index.json of the
\* input root and then master-index.json.
GenerateIndexFiles ==
    /\ pc = "written"
    /\ generateIndex
    /\ written' = written \o <<"index.json", "master-index.json">>
    /\ pc' = "indexed"
    /\ UNCHANGED <<impl, files, pos, documents, ordered, generateIndex,
                   llmsTxt, llmsFullTxt>>
    /\ UNCHANGED <<textVars, scanVars>>
    /\ UNCHANGED <<mainVars, cliVars, indexVars>>

TextIdle ==
    /\ content = ""
    /\ stripped = ""
    /\ restripped = ""
    /\ cleanContent = ""
    /\ spc = "read"

Init == PipeInit /\ TextIdle /\ ScanIdle /\ RestIdle

Next ==
    \/ ReceiveFiles
    \/ NoFiles
    \/ ProcessFile
    \/ OrderDocuments

Spec == Init /\ [][Next]_vars

----------------------------------------------------------------------------
(* The directory scanner: DirectoryScanner.scanDirectory                  *)
(* (LiftProcessor.scanDirectory is the same code, line for line)          *)

\* An entry of a directory listing (a Dirent): its name and what it is.
Entry(name, kind) == [name |-> name, kind |-> kind]

\* What readdir returns for each directory of each tree.  "site" is the
\* fixture of the scanner's tests with more entries, "only-excluded" the
\* tree of the test of that name, "empty" an empty directory.
Listing ==
    [t \in {"site", "only-excluded", "empty"} |->
       CASE t = "site" ->
              ("/in" :> <<Entry("readme.md", "file"),
                          Entry("page.html", "file"),
                          Entry("Guide.MDX", "file"),
                          Entry("config.txt", "file"),
                          Entry("my-build-notes.md", "file"),
                          Entry("draft.md", "file"),
                          Entry("latest", "symlink"),
                          Entry("node_modules", "directory"),
                          Entry(".git", "directory"),
                          Entry("subdir", "directory"),
                          Entry("temp", "directory"),
                          Entry("docs", "directory"),
                          Entry("locked", "directory")>>)
           @@ ("/in/node_modules" :> <<Entry("package.md", "file"),
                                       Entry("pkg", "directory")>>)
           @@ ("/in/node_modules/pkg" :> <<Entry("readme.md", "file")>>)
           @@ ("/in/.git" :> <<Entry("config", "file")>>)
           @@ ("/in/subdir" :> <<Entry("nested.md", "file"),
                                 Entry("Node_Modules", "directory"),
                                 Entry("deep", "directory")>>)
           @@ ("/in/subdir/Node_Modules" :> <<Entry("lib.md", "file")>>)
           @@ ("/in/subdir/deep" :> <<Entry("DRAFT-plan.md", "file"),
                                      Entry("node_modules", "directory")>>)
           @@ ("/in/subdir/deep/node_modules" :> <<Entry("index.md", "file")>>)
           @@ ("/in/temp" :> <<Entry("file.md", "file")>>)
           @@ ("/in/docs" :> <<Entry("guide.html", "file"),
                               Entry("temp.md", "file"),
                               Entry("layout", "directory")>>)
           @@ ("/in/docs/layout" :> <<Entry("grid.md", "file")>>)
           @@ ("/in/locked" :> <<Entry("secret.md", "file")>>)
         [] t = "only-excluded" ->
              ("/in" :> <<Entry("node_modules", "directory")>>)
           @@ ("/in/node_modules" :> <<Entry("test.md", "file")>>)
         [] t = "empty" ->
              ("/in" :> <<>>)]

Trees == DOMAIN Listing

\* The default of options.excludePatterns.
DefaultExcludePatterns ==
    {"node_modules", ".git", "dist", "build", "out", "coverage", ".next",
     ".nuxt", ".output", ".vercel", ".netlify"}

\* The values of options.excludePatterns: absent, or a list of the caller.
ExcludePatternLists == {DefaultExcludePatterns, {"Draft", "docs/Temp"}}

\* The sets of directories whose readdir fails: none, a directory below the
\* root, a nested one, one inside an excluded directory, the root itself.
DeniedSets ==
    {{}, {"/in/locked"}, {"/in/subdir/deep"}, {"/in/node_modules"}, {"/in"}}

\* shouldExclude comparing the name with the patterns for equality.
shouldExcludeExactName(name, relativePath) == name \in excludePatterns

\* shouldExclude with the pattern compared as written, not lowercased.
shouldExcludeCaseSensitive(name, relativePath) ==
    \E pattern \in excludePatterns :
        \/ includes(toLowerCase(name), pattern)
        \/ includes(toLowerCase(relativePath), pattern)

\* DirectoryScanner.shouldExclude(name, relativePath)
shouldExclude(name, relativePath) ==
    LET lowerName == toLowerCase(name)
        lowerPath == toLowerCase(relativePath)
    IN  \E pattern \in excludePatterns :
            \/ includes(lowerName, toLowerCase(pattern))
            \/ includes(lowerPath, toLowerCase(pattern))

\* DirectoryScanner.defaultIsMarkdownFile(filename), the default of
\* this.isMarkdownFileFn
defaultIsMarkdownFile(filename) ==
    LET lower == toLowerCase(filename)
    IN  endsWith(lower, ".md") \/ endsWith(lower, ".mdx")

\* Whether a path matches a glob: `*` matches within a path segment, `**`
\* matches across segments, every other character matches itself.
RECURSIVE globMatch(_, _)
globMatch(glob, path) ==
    IF glob = "" THEN path = ""
    ELSE IF OccursAt(glob, "**", 1)
    THEN \E k \in 0..Len(path) : globMatch(From(glob, 3), From(path, k + 1))
    ELSE IF Ch(glob, 1) = "*"
    THEN \E k \in 0..Len(path) :
            /\ ~includes(SubSeq(path, 1, k), "/")
            /\ globMatch(From(glob, 2), From(path, k + 1))
    ELSE /\ path # ""
         /\ Ch(glob, 1) = Ch(path, 1)
         /\ globMatch(From(glob, 2), From(path, 2))

\* The include and exclude globs a scanner is constructed with: none, and
\* the lists of the tests of matchesGlobs.
GlobOptions ==
    {[include |-> {}, exclude |-> {}],
     [include |-> {"*.md", "docs/*.html"}, exclude |-> {}],
     [include |-> {}, exclude |-> {"draft*", "temp/*"}],
     [include |-> {"*.md", "*.html"}, exclude |-> {"draft*", "temp/*"}],
     [include |-> {"**.md"}, exclude |-> {"subdir/**"}]}

\* matchesGlobs with an include match taking precedence over an exclude match.
matchesGlobsIncludeWins(relativePath) ==
    \/ \E glob \in includeGlobs : globMatch(glob, relativePath)
    \/ /\ includeGlobs = {}
       /\ ~\E glob \in excludeGlobs : globMatch(glob, relativePath)

\* DirectoryScanner.matchesGlobs(relativePath): the path matches an include
\* glob if there are any, and matches no exclude glob.
matchesGlobs(relativePath) ==
    /\ includeGlobs # {} => \E glob \in includeGlobs : globMatch(glob, relativePath)
    /\ ~\E glob \in excludeGlobs : globMatch(glob, relativePath)

\* A call scanDirectory(dir, base) that has not called readdir yet.
Call(dir) == [dir |-> dir, idx |-> 0, files |-> <<>>]

\* new DirectoryScanner(options).scanDirectory(InputDir) is called.
ScanInit ==
    /\ PipeIdle
    /\ TextIdle
    /\ RestIdle
    /\ tree \in Trees
    /\ excludePatterns \in ExcludePatternLists
    /\ \E globs \in GlobOptions :
          /\ includeGlobs = globs.include
          /\ excludeGlobs = globs.exclude
    /\ denied \in DeniedSets
    /\ stack = <<Call(InputDir)>>
    /\ listed = {}
    /\ excludeCalls = {}
    /\ documentCalls = {}
    /\ scanned = <<>>
    /\ scanPc = "scan"

\* scanDirectory, line 34: readdir(dir); its failure is caught on line 57
\* and thrown again, in this call and in every call that awaits it.
Readdir ==
    /\ scanPc = "scan"
    /\ stack # <<>>
    /\ Head(stack).idx = 0
    /\ IF Head(stack).dir \in denied
       THEN /\ scanPc' = "failed"
            /\ stack' = <<>>
            /\ UNCHANGED listed
       ELSE /\ listed' = listed \cup {Head(stack).dir}
            /\ stack' = <<[Head(stack) EXCEPT !.idx = 1]>> \o Tail(stack)
            /\ UNCHANGED scanPc
    /\ UNCHANGED <<tree, excludePatterns, includeGlobs, excludeGlobs, denied,
                   excludeCalls, documentCalls, scanned>>
    /\ UNCHANGED <<pipeVars, textVars>>
    /\ UNCHANGED <<mainVars, cliVars, indexVars>>

\* scanDirectory, lines 36-56: one turn of the loop over the entries.
VisitEntry ==
    /\ scanPc = "scan"
    /\ stack # <<>>
    /\ Head(stack).idx >= 1
    /\ Head(stack).idx <= Len(Listing[tree][Head(stack).dir])
    /\ LET top == Head(stack)
           entry == Listing[tree][top.dir][top.idx]
           fullPath == join(top.dir, entry.name)
           relativePath == relative(InputDir, fullPath)
           document == defaultIsMarkdownFile(entry.name)
           excluded == shouldExclude(entry.name, relativePath)
           next == [top EXCEPT !.idx = top.idx + 1]
       IN  CASE entry.kind = "directory" ->
                  /\ excludeCalls' = excludeCalls \cup {<<entry.name, relativePath, excluded>>}
                  /\ stack' = IF excluded
                              THEN <<next>> \o Tail(stack)
                              ELSE <<Call(fullPath)>> \o stack
                  /\ UNCHANGED documentCalls
             [] entry.kind = "file" ->
                  /\ documentCalls' = documentCalls \cup {<<entry.name, document>>}
                  /\ excludeCalls' = IF document
                                     THEN excludeCalls \cup {<<entry.name, relativePath, excluded>>}
                                     ELSE excludeCalls
                  /\ stack' = IF document /\ ~excluded /\ matchesGlobs(relativePath)
                              THEN <<[next EXCEPT !.files = Append(top.files, fullPath)]>>
                                      \o Tail(stack)
                              ELSE <<next>> \o Tail(stack)
             [] OTHER ->
                  /\ stack' = <<next>> \o Tail(stack)
                  /\ UNCHANGED <<excludeCalls, documentCalls>>
    /\ UNCHANGED <<tree, excludePatterns, includeGlobs, excludeGlobs, denied,
                   listed, scanned, scanPc>>
    /\ UNCHANGED <<pipeVars, textVars>>
    /\ UNCHANGED <<mainVars, cliVars, indexVars>>

\* scanDirectory, line 61 and line 48: return files; the caller pushes them
\* onto its own list and goes on with its next entry.
ReturnFiles ==
    /\ scanPc = "scan"
    /\ stack # <<>>
    /\ Head(stack).idx > Len(Listing[tree][Head(stack).dir])
    /\ IF Len(stack) = 1
       THEN /\ scanned' = Head(stack).files
            /\ scanPc' = "done"
            /\ stack' = <<>>
       ELSE /\ stack' = <<[stack[2] EXCEPT !.files = stack[2].files \o Head(stack).files,
                                           !.idx = stack[2].idx + 1]>>
                           \o Tail(Tail(stack))
            /\ UNCHANGED <<scanned, scanPc>>
    /\ UNCHANGED <<tree, excludePatterns, includeGlobs, excludeGlobs, denied,
                   listed, excludeCalls, documentCalls>>
    /\ UNCHANGED <<pipeVars, textVars>>
    /\ UNCHANGED <<mainVars, cliVars, indexVars>>

ScanNext ==
    \/ Readdir
    \/ VisitEntry
    \/ ReturnFiles

SpecScan == ScanInit /\ [][ScanNext]_vars

----------------------------------------------------------------------------
(* A run of LiftProcessor.process(): scan, processFiles, orderDocuments,  *)
(* generateOutputs and, if asked for, generateIndexFiles                  *)

\* What this.scanDirectory(this.inputDir) can return to process(): lists of
\* files of the pool whose names pass isMarkdownFile.
ScanPool == {p \in PathPool : defaultIsMarkdownFile(basename(p))}

ScanResults ==
    {list \in FileLists : \A i \in 1..Len(list) : relative(InputDir, list[i]) \in ScanPool}

\* What stat(this.inputDir) can find.
InputStats == {"directory", "file", "missing"}

\* new LiftProcessor(inputDir, outputDir, options)
ProcessInit ==
    /\ impl = "LiftProcessor"
    /\ files = <<>>
    /\ pos = 0
    /\ documents = <<>>
    /\ ordered = EmptyOrderedSet
    /\ pc = "start"
    /\ generateIndex \in BOOLEAN
    /\ written = <<>>
    /\ llmsTxt = ""
    /\ llmsFullTxt = ""
    /\ TextIdle
    /\ ScanIdle
    /\ inputStat \in InputStats
    /\ failure = ""
    /\ exitCode = 0
    /\ outputMade = FALSE
    /\ CliIdle
    /\ IndexIdle

\* The message of the Error that stat or the directory test throws.
inputError ==
    IF inputStat = "missing"
    THEN "ENOENT: no such file or directory, stat '" \o InputDir \o "'"
    ELSE "Input path is not a directory: " \o InputDir

\* process() scanning whatever stat(this.inputDir) found.
ValidateInputUnchecked ==
    /\ pc = "start"
    /\ inputStat # "directory"
    /\ files' \in ScanResults
    /\ pc' = "read"
    /\ UNCHANGED <<impl, pos, documents, ordered>>
    /\ UNCHANGED outVars
    /\ UNCHANGED <<textVars, scanVars>>
    /\ UNCHANGED <<mainVars, cliVars, indexVars>>

\* process(): stat(this.inputDir) fails, or finds something that is not a
\* directory; the catch of process() wraps the error and throws it.
ValidateInput ==
    /\ pc = "start"
    /\ inputStat # "directory"
    /\ failure' = "Processing failed: " \o inputError
    /\ pc' = "failed"
    /\ UNCHANGED <<impl, files, pos, documents, ordered>>
    /\ UNCHANGED outVars
    /\ UNCHANGED <<inputStat, exitCode, outputMade>>
    /\ UNCHANGED <<textVars, scanVars, cliVars, indexVars>>

\* main(): catch (error) { console.error('Error:', error.message);
\* process.exit(1) }
MainCatch ==
    /\ pc = "failed"
    /\ stderr' = Append(stderr, "Error: " \o failure)
    /\ exitCode' = 1
    /\ pc' = "exited"
    /\ UNCHANGED <<impl, files, pos, documents, ordered>>
    /\ UNCHANGED outVars
    /\ UNCHANGED <<inputStat, failure, outputMade>>
    /\ UNCHANGED <<args, argi, options, cliPc>>
    /\ UNCHANGED <<textVars, scanVars, indexVars>>

\* process(): const files = await this.scanDirectory(this.inputDir)
ScanDirectory ==
    /\ pc = "start"
    /\ inputStat = "directory"
    /\ files' \in ScanResults
    /\ pc' = "read"
    /\ UNCHANGED <<impl, pos, documents, ordered>>
    /\ UNCHANGED outVars
    /\ UNCHANGED <<textVars, scanVars>>
    /\ UNCHANGED <<mainVars, cliVars, indexVars>>

ProcessNext ==
    \/ ValidateInput
    \/ MainCatch
    \/ ScanDirectory
    \/ NoFiles
    \/ ProcessFile
    \/ OrderDocuments
    \/ GenerateOutputs
    \/ GenerateIndexFiles

SpecProcess == ProcessInit /\ [][ProcessNext]_vars

----------------------------------------------------------------------------
(* The command line of guide: parseArgs and main up to the construction   *)
(* of the processor                                                       *)

\* Largest number of arguments on the command line.
MaxArgs == 3

\* The arguments a command line is made of: every option of parseArgs,
\* options it does not know, values, and the empty argument.
ArgPool ==
    {"--input", "-i", "--output", "-o", "--include", "--exclude",
     "--generate-index", "--silent", "--help", "-h", "--version",
     "--badopt", "-", "docs", "*.md", ""}

ArgLists == UNION {[1..n -> ArgPool] : n \in 0..MaxArgs}

\* parseArgs, lines 391-398: the defaults of the options.
DefaultOptions ==
    [input |-> ".", output |-> ".", silent |-> FALSE, generateIndex |-> FALSE,
     includeGlobs |-> <<>>, excludeGlobs |-> <<>>]

\* The test of a value-taking option that fails only at the end of the
\* arguments.
missingValueOnlyAtEnd(list, i) == i >= Len(list) \/ list[i + 1] = ""

\* parseArgs: !nextArg || nextArg.startsWith('-'), nextArg being
\* list[i + 1]: undefined past the end, and falsy when empty.
missingValue(list, i) ==
    \/ i >= Len(list)
    \/ list[i + 1] = ""
    \/ OccursAt(list[i + 1], "-", 1)

\* main() calls parseArgs().
CliInit ==
    /\ PipeIdle
    /\ TextIdle
    /\ ScanIdle
    /\ MainIdle
    /\ IndexIdle
    /\ args \in ArgLists
    /\ argi = 1
    /\ options = DefaultOptions
    /\ stderr = <<>>
    /\ cliPc = "parsing"

\* process.exit(code) after the lines printed with console.error.
Exit(code, lines) ==
    /\ cliPc' = "exited"
    /\ exitCode' = code
    /\ stderr' = stderr \o lines
    /\ UNCHANGED <<argi, options>>

\* A value-taking option: its value is stored and skipped, or the error is
\* printed and the process exits with code 1.
TakeValue(message, updated) ==
    IF missingValue(args, argi)
    THEN Exit(1, <<message>>)
    ELSE /\ options' = updated
         /\ argi' = argi + 2
         /\ UNCHANGED <<stderr, cliPc, exitCode>>

\* parseArgs, lines 400-470: one turn of the loop over the arguments.
ParseArg ==
    /\ cliPc = "parsing"
    /\ argi <= Len(args)
    /\ LET arg == args[argi]
           nextArg == IF argi < Len(args) THEN args[argi + 1] ELSE ""
       IN  CASE arg \in {"--help", "-h", "--version"} ->
                  Exit(0, <<>>)
             [] arg \in {"--input", "-i"} ->
                  TakeValue("Error: --input requires a path argument",
                            [options EXCEPT !.input = nextArg])
             [] arg \in {"--output", "-o"} ->
                  TakeValue("Error: --output requires a path argument",
                            [options EXCEPT !.output = nextArg])
             [] arg = "--include" ->
                  TakeValue("Error: --include requires a glob pattern argument",
                            [options EXCEPT !.includeGlobs = Append(@, nextArg)])
             [] arg = "--exclude" ->
                  TakeValue("Error: --exclude requires a glob pattern argument",
                            [options EXCEPT !.excludeGlobs = Append(@, nextArg)])
             [] arg = "--silent" ->
                  /\ options' = [options EXCEPT !.silent = TRUE]
                  /\ argi' = argi + 1
                  /\ UNCHANGED <<stderr, cliPc, exitCode>>
             [] arg = "--generate-index" ->
                  /\ options' = [options EXCEPT !.generateIndex = TRUE]
                  /\ argi' = argi + 1
                  /\ UNCHANGED <<stderr, cliPc, exitCode>>
             [] OTHER ->
                  IF OccursAt(arg, "-", 1)
                  THEN Exit(1, <<"Error: Unknown option " \o arg,
                                 "Use --help to see available options">>)
                  ELSE /\ argi' = argi + 1
                       /\ UNCHANGED <<options, stderr, cliPc, exitCode>>
    /\ UNCHANGED args
    /\ UNCHANGED <<inputStat, failure, outputMade>>
    /\ UNCHANGED <<pipeVars, textVars, scanVars, indexVars>>

\* main(), lines 477-484: parseArgs has returned the options and the
\* processor is constructed with them; process() is about to run.
Construct ==
    /\ cliPc = "parsing"
    /\ argi > Len(args)
    /\ cliPc' = "constructed"
    /\ pc' = "start"
    /\ generateIndex' = options.generateIndex
    /\ includeGlobs' = {options.includeGlobs[k] : k \in 1..Len(options.includeGlobs)}
    /\ excludeGlobs' = {options.excludeGlobs[k] : k \in 1..Len(options.excludeGlobs)}
    /\ UNCHANGED <<impl, files, pos, documents, ordered, written, llmsTxt, llmsFullTxt>>
    /\ UNCHANGED <<tree, excludePatterns, denied, stack, listed, excludeCalls,
                   documentCalls, scanned, scanPc>>
    /\ UNCHANGED <<args, argi, options, stderr>>
    /\ UNCHANGED <<textVars, mainVars, indexVars>>

CliNext ==
    \/ ParseArg
    \/ Construct

SpecCli == CliInit /\ [][CliNext]_vars

----------------------------------------------------------------------------
(* The index generator: IndexGenerator.generateAll, that is               *)
(* generateDirectoryIndex and generateMasterIndex (LiftProcessor has the  *)
(* same code, line for line, under generateIndexFiles)                    *)

\* Largest number of segments of a path mkdir can make: the limit the file
\* system puts on the length of a path.
MaxDepth == 5

\* The values of this.outputDir: a directory apart from the input root,
\* the input root itself, a directory inside the input root.
OutputDirs == {"/out", InputDir, join(InputDir, "out"), join(InputDir, "gen")}

\* The values of options.excludePatterns of the index generator: absent
\* (IndexGenerator keeps no pattern, LiftProcessor the default ones), or a
\* list of the caller.
IndexExcludeLists == ExcludePatternLists \cup {{}}

\* The paths whose readdir or stat fails: none, a directory below the
\* root, a nested one, one inside an excluded directory, a file.
IndexDeniedSets ==
    {{}, {"/in/locked"}, {"/in/subdir/deep"}, {"/in/node_modules"}, {"/in/temp/file.md"}}

\* The number of segments of an absolute path.
Depth(path) == Cardinality({i \in 1..Len(path) : Ch(path, i) = "/"})

\* join(relativePath, name) for a relative path that may be empty.
joinRelative(relativePath, name) ==
    IF relativePath = "" THEN name ELSE join(relativePath, name)

\* stats.size of a file.
SizeOf(path) == 10 * Len(basename(path))

\* A summary as createIndexContent makes it.
Summary(totalFiles, totalSubdirectories, markdownFiles, totalSize) ==
    [totalFiles |-> totalFiles, totalSubdirectories |-> totalSubdirectories,
     markdownFiles |-> markdownFiles, totalSize |-> totalSize]

\* What an index.json found at the start can hold: a DirectoryIndex of an
\* earlier run, text that is not JSON, JSON of another tool without a
\* summary, or anything in a file that cannot be read.
StaleContents ==
    {[kind |-> "json",
      value |-> [directory |-> "old", files |-> <<>>, subdirectories |-> <<>>,
                 summary |-> Summary(7, 0, 5, 700)]],
     [kind |-> "malformed", value |-> <<>>],
     [kind |-> "json", value |-> [name |-> "package"]],
     [kind |-> "unreadable", value |-> <<>>]}

\* Where an index.json can be found at the start, the output root given.
\* For a root apart from the input root: at the root, or in a directory of
\* it that is no directory of the input.  For the input root: in an input
\* directory, or in such a directory.  A root inside the input root is new.
StaleDirs(root) ==
    IF root = InputDir THEN {join(root, "old"), "/in/node_modules"}
    ELSE IF OccursAt(root, InputDir \o "/", 1) THEN {}
    ELSE {join(root, "old"), root}

\* The index.json files found at the start: none, or one.
StaleChoices(root) ==
    {<<>>} \cup {(d :> c) : d \in StaleDirs(root), c \in StaleContents}

\* The elements of a set of strings, one after the other.
RECURSIVE SeqOf(_)
SeqOf(S) ==
    IF S = {} THEN <<>>
    ELSE LET x == CHOOSE y \in S : TRUE IN <<x>> \o SeqOf(S \ {x})

\* The names an entry can have.
NamePool ==
    UNION {UNION {{Listing[t][d][k].name : k \in 1..Len(Listing[t][d])} :
                      d \in DOMAIN Listing[t]} : t \in Trees}
    \cup {"out", "gen", "old", "index.json"}

\* The entries of a directory, the directories mkdir has made being given:
\* the entries of the input tree, then the directories and the index.json
\* that were added to it.
EntriesOf(dir, made) ==
    LET base == IF dir \in DOMAIN Listing[tree] THEN Listing[tree][dir] ELSE <<>>
        names == {base[k].name : k \in 1..Len(base)}
        addedDirs == SeqOf({name \in NamePool \ names :
                               join(dir, name) \in made \cup DOMAIN indexFiles})
    IN  base
        \o [k \in 1..Len(addedDirs) |-> Entry(addedDirs[k], "directory")]
        \o (IF dir \in DOMAIN indexFiles /\ "index.json" \notin names
            THEN <<Entry("index.json", "file")>> ELSE <<>>)

\* readdir(dir, { withFileTypes: true })
readdir(dir) == EntriesOf(dir, dirs)

\* localeCompare for the names of the pool, evaluated once per pair.
NameCompareTable == [a \in NamePool, b \in NamePool |-> localeCompare(a, b)]

\* list.sort((a, b) => a.name.localeCompare(b.name))
sortByName(list) ==
    LET cmp == [i \in 1..Len(list), j \in 1..Len(list) |->
                   NameCompareTable[list[i].name, list[j].name]]
        place == [i \in 1..Len(list) |->
                    1 + Cardinality({j \in 1..Len(list) : cmp[j, i] < 0})
                      + Cardinality({j \in 1..(i - 1) : cmp[j, i] = 0})]
    IN  [k \in 1..Len(list) |-> list[CHOOSE i \in 1..Len(list) : place[i] = k]]

\* getFileExtension(filename)
getFileExtension(filename) ==
    LET dots == {i \in 1..Len(filename) : Ch(filename, i) = "."}
    IN  IF dots = {} THEN "" ELSE From(filename, Max(dots))

\* The sum of the sizes of a list of files.
RECURSIVE SumOfSizes(_)
SumOfSizes(list) ==
    IF list = <<>> THEN 0 ELSE Head(list).size + SumOfSizes(Tail(list))

\* createIndexContent counting every file as a Markdown file.
createIndexContentCountingAll(relativePath, fileList, subdirectories) ==
    [directory |-> IF relativePath = "" THEN "." ELSE relativePath,
     files |-> sortByName(fileList),
     subdirectories |-> sortByName(subdirectories),
     summary |-> Summary(Len(fileList), Len(subdirectories), Len(fileList),
                         SumOfSizes(fileList))]

\* createIndexContent(relativePath, files, subdirectories), without the
\* time of generation.
createIndexContent(relativePath, fileList, subdirectories) ==
    [directory |-> IF relativePath = "" THEN "." ELSE relativePath,
     files |-> sortByName(fileList),
     subdirectories |-> sortByName(subdirectories),
     summary |-> Summary(Len(fileList), Len(subdirectories),
                         Len(SelectSeq(fileList, LAMBDA f : f.isMarkdown)),
                         SumOfSizes(fileList))]

\* A call generateDirectoryIndex(inputDir, outputDir, relativePath) that
\* has not made its output directory yet.
IndexCall(inputDir, outDir, relativePath) ==
    [inputDir |-> inputDir, outputDir |-> outDir, relativePath |-> relativePath,
     entries |-> <<>>, idx |-> 0, files |-> <<>>, subdirectories |-> <<>>]

\* new IndexGenerator(inputDir, outputDir, options).generateAll() is called.
IndexInit ==
    /\ PipeIdle
    /\ TextIdle
    /\ MainIdle
    /\ CliIdle
    /\ tree \in Trees
    /\ excludePatterns \in IndexExcludeLists
    /\ includeGlobs = {}
    /\ excludeGlobs = {}
    /\ denied \in IndexDeniedSets
    /\ stack = <<>>
    /\ listed = {}
    /\ excludeCalls = {}
    /\ documentCalls = {}
    /\ scanned = <<>>
    /\ scanPc = "idle"
    /\ outputDir \in OutputDirs
    /\ stale \in StaleChoices(outputDir)
    /\ dirs = {}
    /\ indexFiles = stale
    /\ calls = <<IndexCall(InputDir, outputDir, "")>>
    /\ visits = <<>>
    /\ writes = <<>>
    /\ master = <<>>
    /\ indexPc = "index"

\* The directories there are: those of the input tree, those mkdir has
\* made, and those that held an index.json at the start.
DirectoryExists(dir) ==
    dir \in DOMAIN Listing[tree] \cup dirs \cup DOMAIN stale

\* An error that ends the call it is thrown in and no other: the caller
\* goes on with its next entry.
IndexFailsInOneCall ==
    IF Len(calls) = 1
    THEN indexPc' = "failed" /\ calls' = <<>>
    ELSE /\ calls' = <<[calls[2] EXCEPT !.idx = @ + 1]>> \o Tail(Tail(calls))
         /\ UNCHANGED indexPc

\* The error thrown in a call is thrown again by every call that awaits
\* it (line 92) and generateAll fails.
IndexFails ==
    /\ indexPc' = "failed"
    /\ calls' = <<>>

\* generateDirectoryIndex, lines 34-37: mkdir(outputDir, { recursive: true })
\* and readdir(inputDir); mkdir fails for a path that is too long, readdir
\* for a directory that cannot be read.
MakeAndRead ==
    /\ indexPc = "index"
    /\ calls # <<>>
    /\ Head(calls).idx = 0
    /\ UNCHANGED <<outputDir, stale, indexFiles, writes, master>>
    /\ UNCHANGED <<pipeVars, textVars, scanVars, mainVars, cliVars>>
    /\ LET top == Head(calls)
       IN  /\ visits' = Append(visits, top.inputDir)
           /\ IF Depth(top.outputDir) > MaxDepth
              THEN IndexFails /\ UNCHANGED dirs
              ELSE /\ dirs' = IF DirectoryExists(top.outputDir)
                              THEN dirs ELSE dirs \cup {top.outputDir}
                   /\ IF top.inputDir \in denied
                      THEN IndexFails
                      ELSE /\ calls' = <<[top EXCEPT !.entries = EntriesOf(top.inputDir, dirs'),
                                                     !.idx = 1]>> \o Tail(calls)
                           /\ UNCHANGED indexPc

\* generateDirectoryIndex, lines 41-82: one turn of the loop over the
\* entries, up to the recursive call for a subdirectory.
IndexEntry ==
    /\ indexPc = "index"
    /\ calls # <<>>
    /\ Head(calls).idx >= 1
    /\ Head(calls).idx <= Len(Head(calls).entries)
    /\ LET top == Head(calls)
           entry == top.entries[top.idx]
           entryPath == join(top.inputDir, entry.name)
           entryRelativePath == joinRelative(top.relativePath, entry.name)
           excluded == shouldExclude(entry.name, entryRelativePath)
           extension == getFileExtension(entry.name)
           next == [top EXCEPT !.idx = top.idx + 1]
       IN  CASE entry.kind = "directory" /\ ~excluded ->
                  /\ calls' = <<IndexCall(entryPath, join(top.outputDir, entry.name),
                                          entryRelativePath)>> \o calls
                  /\ UNCHANGED indexPc
             [] entry.kind = "file" /\ ~excluded ->
                  IF entryPath \in denied
                  THEN IndexFails
                  ELSE /\ calls' =
                            <<[next EXCEPT !.files =
                                 Append(top.files,
                                        [name |-> entry.name,
                                         path |-> entryRelativePath,
                                         size |-> SizeOf(entryPath),
                                         type |-> From(extension, 2),
                                         extension |-> extension,
                                         isMarkdown |-> defaultIsMarkdownFile(entry.name)])]>>
                            \o Tail(calls)
                       /\ UNCHANGED indexPc
             [] OTHER ->
                  /\ calls' = <<next>> \o Tail(calls)
                  /\ UNCHANGED indexPc
    /\ UNCHANGED <<outputDir, stale, dirs, indexFiles, visits, writes, master>>
    /\ UNCHANGED <<pipeVars, textVars, scanVars, mainVars, cliVars>>

\* generateDirectoryIndex, lines 85-89: the index of the directory is made
\* and written; then, lines 54-60, the caller lists the subdirectory and
\* goes on; generateAll, lines 22-25, goes on to the master index.
WriteIndex ==
    /\ indexPc = "index"
    /\ calls # <<>>
    /\ Head(calls).idx > Len(Head(calls).entries)
    /\ LET top == Head(calls)
           indexContent == createIndexContent(top.relativePath, top.files,
                                              top.subdirectories)
       IN  /\ indexFiles' = (top.outputDir :> [kind |-> "json", value |-> indexContent])
                                @@ indexFiles
           /\ writes' = Append(writes, top.outputDir)
           /\ IF Len(calls) = 1
              THEN /\ calls' = <<>>
                   /\ indexPc' = "master"
              ELSE /\ calls' =
                        <<[calls[2] EXCEPT
                             !.subdirectories =
                                 Append(@, [name |-> basename(top.inputDir),
                                            path |-> top.relativePath,
                                            indexPath |-> join(top.relativePath, "index.json")]),
                             !.idx = @ + 1]>> \o Tail(Tail(calls))
                   /\ UNCHANGED indexPc
    /\ UNCHANGED <<outputDir, stale, dirs, visits, master>>
    /\ UNCHANGED <<pipeVars, textVars, scanVars, mainVars, cliVars>>

\* The concatenation of a list of lists.
RECURSIVE Flatten(_)
Flatten(lists) ==
    IF lists = <<>> THEN <<>> ELSE Head(lists) \o Flatten(Tail(lists))

\* collectAllIndexes that does not go into the subdirectories.
collectAllIndexesOfRoot(dir, base) ==
    IF dir \in DOMAIN indexFiles /\ indexFiles[dir].kind = "json"
    THEN <<[relativePath |-> ".", content |-> indexFiles[dir].value]>>
    ELSE <<>>

\* collectAllIndexes(dir, base): the index.json of dir, if it can be read
\* and parsed, then those of its subdirectories; a directory that cannot
\* be read ends the call without an error.
RECURSIVE collectAllIndexes(_, _)
collectAllIndexes(dir, base) ==
    LET relativePath == IF relative(base, dir) = "" THEN "." ELSE relative(base, dir)
        own == IF dir \in DOMAIN indexFiles /\ indexFiles[dir].kind = "json"
               THEN <<[relativePath |-> relativePath, content |-> indexFiles[dir].value]>>
               ELSE <<>>
        subDirs == SelectSeq(readdir(dir), LAMBDA entry : entry.kind = "directory")
    IN  IF dir \in denied
        THEN own
        ELSE own \o Flatten([k \in 1..Len(subDirs) |->
                                collectAllIndexes(join(dir, subDirs[k].name), base)])

\* The sum of one field of the summaries of a list of collected indexes.
RECURSIVE SumOfSummaries(_, _)
SumOfSummaries(allIndexes, field) ==
    IF allIndexes = <<>> THEN 0
    ELSE Head(allIndexes).content.summary[field]
         + SumOfSummaries(Tail(allIndexes), field)

\* generateMasterIndex, lines 99-125: the indexes are collected and added
\* up, and master-index.json is written; reading the summary of a content
\* that has none throws a TypeError, which the catch throws again.
generateMasterIndex ==
    /\ indexPc = "master"
    /\ LET allIndexes == collectAllIndexes(outputDir, outputDir)
       IN  IF \E k \in 1..Len(allIndexes) : "summary" \notin DOMAIN allIndexes[k].content
           THEN /\ indexPc' = "failed"
                /\ UNCHANGED master
           ELSE /\ master' =
                       [project |-> basename(InputDir),
                        totalDirectories |-> Len(allIndexes),
                        totalFiles |-> SumOfSummaries(allIndexes, "totalFiles"),
                        totalMarkdownFiles |-> SumOfSummaries(allIndexes, "markdownFiles"),
                        totalSize |-> SumOfSummaries(allIndexes, "totalSize"),
                        directories |->
                            [k \in 1..Len(allIndexes) |->
                                [path |-> allIndexes[k].relativePath,
                                 indexPath |-> join(allIndexes[k].relativePath, "index.json"),
                                 summary |-> allIndexes[k].content.summary]]]
                /\ indexPc' = "done"
    /\ UNCHANGED <<outputDir, stale, dirs, indexFiles, calls, visits, writes>>
    /\ UNCHANGED <<pipeVars, textVars, scanVars, mainVars, cliVars>>

IndexNext ==
    \/ MakeAndRead
    \/ IndexEntry
    \/ WriteIndex
    \/ generateMasterIndex

SpecIndex == IndexInit /\ [][IndexNext]_vars

----------------------------------------------------------------------------
(* Reading a text as lines, for the statements about stripFrontmatter *)

\* The position of the first "\n" of s, 0 when there is none.
FirstNewline(s) ==
    IF \E i \in 1..Len(s) : Ch(s, i) = "\n"
    THEN Min({i \in 1..Len(s) : Ch(s, i) = "\n"})
    ELSE 0

\* s.split("\n")
RECURSIVE SplitLines(_)
SplitLines(s) ==
    IF FirstNewline(s) = 0
    THEN <<s>>
    ELSE <<SubSeq(s, 1, FirstNewline(s) - 1)>> \o SplitLines(From(s, FirstNewline(s) + 1))

\* lines.join("\n")
RECURSIVE JoinLines(_)
JoinLines(ls) ==
    IF ls = <<>> THEN ""
    ELSE IF Len(ls) = 1 THEN ls[1]
    ELSE ls[1] \o "\n" \o JoinLines(Tail(ls))

\* The number of lines of s that begin with three dashes.
DashLines(s) ==
    Cardinality({i \in 1..Len(SplitLines(s)) : OccursAt(SplitLines(s)[i], "---", 1)})

\* The lines after the first that consist solely of three dashes.
ClosingLines(s) == {i \in 2..Len(SplitLines(s)) : SplitLines(s)[i] = "---"}

\* s is an opening --- line, front-matter lines, a closing --- line and a body.
HasFrontMatterBlock(s) == SplitLines(s)[1] = "---" /\ ClosingLines(s) # {}

\* The body of such a text: what follows its first closing line.
BodyOf(s) ==
    LET c == Min(ClosingLines(s))
    IN  JoinLines(SubSeq(SplitLines(s), c + 1, Len(SplitLines(s))))

----------------------------------------------------------------------------
(* Statements about stripFrontmatter, checked under SpecStrip *)

\* C5 (as claimed): stripFrontmatter is idempotent: for every text t,
\* stripFrontmatter(stripFrontmatter(t)) equals stripFrontmatter(t).
C5_IdempotentOnEveryText ==
    spc = "restripped" => restripped = stripped

\* C5 (amended): stripFrontmatter is idempotent on every text that has at
\* most two lines beginning with ---, that is at most one delimited block;
\* each application removes one block, so a text with more can change again.
C5_IdempotentOnOneBlock ==
    (spc = "restripped" /\ DashLines(content) <= 2) => restripped = stripped

\* C5 witness: a text with one block, whose block the first application
\* removed, has been stripped a second time.
C5_Witness ==
    /\ spc = "restripped"
    /\ DashLines(content) = 2
    /\ stripped # content
    /\ restripped = stripped

\* C6: for every text whose first line is not ---, stripFrontmatter returns
\* the text unchanged, even if a ----delimited block occurs later in it.
C6_OnlyLeadingBlockRemoved ==
    (spc = "stripped" /\ SplitLines(content)[1] # "---") => stripped = content

\* C7: for every text that starts with a --- line and has no later line
\* consisting solely of ---, stripFrontmatter returns the text unchanged.
C7_UnclosedBlockUnchanged ==
    (spc = "stripped" /\ SplitLines(content)[1] = "---" /\ ClosingLines(content) = {})
        => stripped = content

\* C8: for every text made of an opening --- line, zero or more front-matter
\* lines, a closing --- line and a body, the content stored in the Document
\* (stripFrontmatter, then trim) is exactly the trimmed body.
C8_ContentIsTrimmedBody ==
    (spc = "trimmed" /\ HasFrontMatterBlock(content))
        => cleanContent = trim(BodyOf(content))

----------------------------------------------------------------------------
(* Statements about classification and orderDocuments, checked under Spec *)

Range(seq) == {seq[i] : i \in 1..Len(seq)}

\* The number of times d occurs in seq.
Count(seq, d) == Cardinality({i \in 1..Len(seq) : seq[i] = d})

\* The buckets of the OrderedSet that hold d.
BucketsHolding(d) ==
    {b \in {"index", "important", "other"} :
        d \in Range(IF b = "index" THEN ordered.index
                    ELSE IF b = "important" THEN ordered.important
                    ELSE ordered.other)}

\* The rearrangements of a sequence.
Rearrangements(seq) ==
    {[i \in 1..Len(seq) |-> seq[f[i]]] : f \in Permutations(1..Len(seq))}

\* 1 for a path orderDocuments puts in index, 2 for important, 3 for other.
BucketRank(path) ==
    IF isIndexDocument(path) THEN 1 ELSE IF isImportantDocument(path) THEN 2 ELSE 3

\* C1: every input document appears in exactly one of the buckets index,
\* important, other and exactly once in all; no document is dropped,
\* duplicated or invented.
C1_BucketsPartitionInput ==
    pc = "done" =>
        /\ \A d \in Range(documents) :
              /\ Cardinality(BucketsHolding(d)) = 1
              /\ Count(ordered.index, d) + Count(ordered.important, d)
                    + Count(ordered.other, d) = Count(documents, d)
              /\ Count(ordered.all, d) = Count(documents, d)
        /\ Range(ordered.all) \subseteq Range(documents)
        /\ Range(ordered.index) \cup Range(ordered.important) \cup Range(ordered.other)
              \subseteq Range(documents)
        /\ Len(ordered.all) = Len(documents)

\* C1 witness: orderDocuments has returned with a document in every bucket.
C1_Witness ==
    /\ pc = "done"
    /\ Len(ordered.index) >= 1
    /\ Len(ordered.important) >= 1
    /\ Len(ordered.other) >= 1

\* C2: all is exactly index ++ important ++ other: every index-classified
\* document precedes every important-classified one, which precedes every
\* other-classified one.
C2_AllIsConcatenation ==
    pc = "done" =>
        /\ ordered.all = ordered.index \o ordered.important \o ordered.other
        /\ \A i, j \in 1..Len(ordered.all) :
              i < j => BucketRank(ordered.all[i].relativePath)
                          <= BucketRank(ordered.all[j].relativePath)
        /\ Range(ordered.all) = Range(documents)

\* C2 witness: three documents, one per bucket, were discovered in the
\* reverse of the bucket order and have been ordered.
C2_Witness ==
    /\ pc = "done"
    /\ Len(documents) = 3
    /\ BucketRank(documents[1].relativePath) = 3
    /\ BucketRank(documents[2].relativePath) = 2
    /\ BucketRank(documents[3].relativePath) = 1

\* The extensions of a document file.
ClaimedExtensions == {".md", ".mdx", ".html"}

\* The priority the statement gives a path: 1 for base name index.*, 2 for
\* readme.*, 3 for home.* (case-insensitive), 4 for any other path.
ClaimedPriority(path) ==
    LET filename == toLowerCase(basename(path))
    IN  IF filename \in {"index" \o e : e \in ClaimedExtensions} THEN 1
        ELSE IF filename \in {"readme" \o e : e \in ClaimedExtensions} THEN 2
        ELSE IF filename \in {"home" \o e : e \in ClaimedExtensions} THEN 3
        ELSE 4

\* C3: within the index bucket, documents are in non-decreasing priority,
\* where priority is 1 for base name index.(md|mdx|html), 2 for readme.*,
\* 3 for home.* and 4 for any other index-classified path.
C3_IndexBucketByPriority ==
    pc = "done" =>
        \A i, j \in 1..Len(ordered.index) :
            i < j => ClaimedPriority(ordered.index[i].relativePath)
                        <= ClaimedPriority(ordered.index[j].relativePath)

\* b is ascending by relativePath under localeCompare.
AscendingByPath(b) ==
    \A i, j \in 1..Len(b) :
        i < j => LocaleCompareTable[b[i].relativePath, b[j].relativePath] <= 0

\* C4: the important bucket and the other bucket are each sorted ascending
\* by relativePath, so they do not depend on the order in which the
\* documents were discovered.
C4_BucketsSortedByPath ==
    pc = "done" =>
        /\ AscendingByPath(ordered.important)
        /\ AscendingByPath(ordered.other)
        /\ \A docs \in Rearrangements(documents) :
              LET reordered == orderDocuments(docs)
              IN  /\ reordered.important = ordered.important
                  /\ reordered.other = ordered.other

\* C4 witness: two documents of the important bucket were discovered in
\* descending order of their paths and have been ordered.
C4_Witness ==
    /\ pc = "done"
    /\ Len(ordered.important) >= 2
    /\ \E i, j \in 1..Len(documents) :
          /\ i < j
          /\ BucketRank(documents[i].relativePath) = 2
          /\ BucketRank(documents[j].relativePath) = 2
          /\ LocaleCompareTable[documents[i].relativePath, documents[j].relativePath] > 0

\* The paths the statement classifies INDEX: the lower-cased base name is
\* index, readme or home with extension .md, .mdx or .html, or the
\* lower-cased path contains /index., /readme. or /home.
ClaimedIndex(path) ==
    \/ toLowerCase(basename(path)) \in
          {stem \o e : stem \in {"index", "readme", "home"}, e \in ClaimedExtensions}
    \/ \E segment \in {"/index.", "/readme.", "/home."} :
          includes(toLowerCase(path), segment)

\* C9: a path is classified INDEX exactly when the statement's condition
\* holds, by the classifier of either class, root-level index.html,
\* readme.html and home.html included.
C9_IndexExactlyByNameOrSegment ==
    pc = "done" =>
        \A d \in Range(documents) :
            d \in Range(ordered.index) <=> ClaimedIndex(d.relativePath)

\* The substrings the statement gives for IMPORTANT.
ClaimedImportantPatterns ==
    {"doc", "docs", "guide", "guides", "tutorial", "tutorials", "intro",
     "introduction", "getting-started", "get-started", "quickstart",
     "quick-start", "start"}

\* C10: a path that is not INDEX is classified IMPORTANT exactly when its
\* lower-cased relative path contains one of the statement's substrings; in
\* particular guide.md is important.
C10_ImportantExactlyBySubstring ==
    pc = "done" =>
        \A d \in Range(documents) \ Range(ordered.index) :
            d \in Range(ordered.important) <=>
                \E pattern \in ClaimedImportantPatterns :
                    includes(toLowerCase(d.relativePath), pattern)

----------------------------------------------------------------------------
(* The statements about the scanner *)

\* pattern occurs in s at some position when letter case is ignored,
\* compared character by character.
ContainsIgnoringCase(s, pattern) ==
    \E i \in 0..(Len(s) - Len(pattern)) :
        \A k \in 1..Len(pattern) : LowerChar(Ch(s, i + k)) = LowerChar(Ch(pattern, k))

\* The exclusion the specification describes: the name or the relative path
\* contains a configured pattern as a substring, case-insensitively.
ClaimedExclude(name, relativePath) ==
    \E pattern \in excludePatterns :
        ContainsIgnoringCase(name, pattern) \/ ContainsIgnoringCase(relativePath, pattern)

\* The document files the specification describes.
ClaimedDocumentFile(name) ==
    \E ext \in ClaimedExtensions : endsWith(toLowerCase(name), ext)

\* The glob check the specification describes.
ClaimedGlobAccept(relativePath) ==
    /\ includeGlobs = {} \/ \E glob \in includeGlobs : globMatch(glob, relativePath)
    /\ \A glob \in excludeGlobs : ~globMatch(glob, relativePath)

\* The directories strictly between the scanned directory and a path.
DirectoriesAbove(path) ==
    {SubSeq(path, 1, i - 1) :
        i \in {j \in (Len(InputDir) + 2)..Len(path) : Ch(path, j) = "/"}}

\* A path lies under a directory that the specification excludes.
UnderExcludedDirectory(path) ==
    \E dir \in DirectoriesAbove(path) :
        ClaimedExclude(basename(dir), relative(InputDir, dir))

\* The files of the tree, as full paths.
TreeFiles ==
    UNION {{join(dir, Listing[tree][dir][i].name) :
               i \in {j \in 1..Len(Listing[tree][dir]) :
                         Listing[tree][dir][j].kind = "file"}} :
           dir \in DOMAIN Listing[tree]}

\* The files the specification puts in the scan result.
ClaimedScanResult ==
    {f \in TreeFiles :
        /\ ClaimedDocumentFile(basename(f))
        /\ ~UnderExcludedDirectory(f)
        /\ ~ClaimedExclude(basename(f), relative(InputDir, f))
        /\ ClaimedGlobAccept(relative(InputDir, f))}

\* C11: the scanner's default document-file predicate is true exactly for
\* the names whose lowercased form ends with .md, .mdx or .html, so that
\* .html files are part of the result of a scan.
C11_DocumentFilesByExtension ==
    /\ \A call \in documentCalls : call[2] <=> ClaimedDocumentFile(call[1])
    /\ scanPc = "done" => \A f \in ClaimedScanResult : f \in Range(scanned)

\* C12: shouldExclude(name, relativePath) is true exactly when the name or
\* the relative path contains a configured pattern as a substring, letter
\* case ignored; with the default patterns my-build-notes.md is excluded.
C12_ExcludedBySubstring ==
    /\ \A call \in excludeCalls : call[3] <=> ClaimedExclude(call[1], call[2])
    /\ excludePatterns = DefaultExcludePatterns =>
          \A call \in excludeCalls : call[1] = "my-build-notes.md" => call[3]

\* C12 happens: a scan has finished in which shouldExclude accepted a name,
\* rejected my-build-notes.md for the substring build, and rejected a file
\* whose name matches a pattern only when letter case is ignored.
C12_Witness ==
    /\ scanPc = "done"
    /\ \/ /\ <<"my-build-notes.md", "my-build-notes.md", TRUE>> \in excludeCalls
          /\ <<"readme.md", "readme.md", FALSE>> \in excludeCalls
          /\ <<"Node_Modules", "subdir/Node_Modules", TRUE>> \in excludeCalls
       \/ /\ <<"draft.md", "draft.md", TRUE>> \in excludeCalls
          /\ <<"temp.md", "docs/temp.md", TRUE>> \in excludeCalls
          /\ <<"my-build-notes.md", "my-build-notes.md", FALSE>> \in excludeCalls

\* C13: scanDirectory never lists a directory whose name or relative path
\* is excluded, and returns no file that lies under such a directory at any
\* depth; with the default patterns a directory named node_modules
\* contributes no file.
C13_ExcludedDirectoriesPruned ==
    /\ \A dir \in listed :
          dir # InputDir =>
             /\ ~ClaimedExclude(basename(dir), relative(InputDir, dir))
             /\ ~UnderExcludedDirectory(dir)
    /\ \A i \in 1..Len(scanned) : ~UnderExcludedDirectory(scanned[i])
    /\ excludePatterns = DefaultExcludePatterns =>
          \A i \in 1..Len(scanned) : "node_modules" \notin
              {basename(dir) : dir \in DirectoriesAbove(scanned[i])}

\* C13 happens: a scan with the default patterns has finished that met
\* node_modules at the root and three levels down, and Node_Modules, listed
\* none of them, and returned files of other directories.
C13_Witness ==
    /\ scanPc = "done"
    /\ excludePatterns = DefaultExcludePatterns
    /\ <<"node_modules", "node_modules", TRUE>> \in excludeCalls
    /\ <<"node_modules", "subdir/deep/node_modules", TRUE>> \in excludeCalls
    /\ <<"Node_Modules", "subdir/Node_Modules", TRUE>> \in excludeCalls
    /\ "/in/subdir/deep" \in listed
    /\ "/in/subdir/nested.md" \in Range(scanned)

\* What the tests of matchesGlobs expect of the lists they configure.
GlobTestsPass ==
    /\ (includeGlobs = {"*.md", "docs/*.html"} /\ excludeGlobs = {}) =>
          /\ matchesGlobs("test.md")
          /\ matchesGlobs("docs/guide.html")
          /\ ~matchesGlobs("test.txt")
          /\ ~matchesGlobs("other/guide.html")
    /\ (includeGlobs = {} /\ excludeGlobs = {"draft*", "temp/*"}) =>
          /\ matchesGlobs("test.md")
          /\ ~matchesGlobs("draft.md")
          /\ ~matchesGlobs("draft-notes.html")
          /\ ~matchesGlobs("temp/file.md")
          /\ matchesGlobs("docs/temp.md")
    /\ (includeGlobs = {"*.md", "*.html"} /\ excludeGlobs = {"draft*", "temp/*"}) =>
          /\ matchesGlobs("test.md")
          /\ matchesGlobs("guide.html")
          /\ ~matchesGlobs("test.txt")
          /\ ~matchesGlobs("draft.md")
          /\ ~matchesGlobs("temp/file.html")

C15_UnreadableSubdirectorySkipped ==
    /\ scanPc = "failed" => InputDir \in denied
    /\ scanPc = "done" =>
          \A f \in ClaimedScanResult :
             (defaultIsMarkdownFile(basename(f)) /\ DirectoriesAbove(f) \cap denied = {})
                => f \in Range(scanned)

----------------------------------------------------------------------------
(* The statements about processFiles, process() and the outputs *)

\* The part of files that processFiles has handled and could read.
ReadableHandled ==
    SelectSeq(SubSeq(files, 1, pos), LAMBDA f : relative(InputDir, f) \notin Unreadable)

\* C16: processFiles never fails on an unreadable file: it goes through
\* the whole list and returns one Document per readable path, in the order
\* of the list, leaving out the paths whose read fails.
C16_UnreadableFilesOmitted ==
    /\ pc \in {"read", "done", "written", "indexed"} =>
          /\ Len(documents) = Len(ReadableHandled)
          /\ \A i \in 1..Len(documents) :
                /\ documents[i].fullPath = ReadableHandled[i]
                /\ documents[i].relativePath = relative(InputDir, ReadableHandled[i])
    /\ pc \in {"done", "written", "indexed"} => pos = Len(files)

\* C16 happens: processFiles has returned for a list of three files whose
\* second file could not be read.
C16_Witness ==
    /\ pc = "done"
    /\ Len(files) = 3
    /\ relative(InputDir, files[2]) \in Unreadable
    /\ Len(documents) = 2

\* C17: when the scan finds no document file, process() returns normally
\* and writes no file, with generateIndex set or not.
C17_NothingWrittenWithoutFiles ==
    (pc \notin {"start", "failed", "exited"} /\ Len(files) = 0) =>
        /\ pc \in {"read", "empty"}
        /\ written = <<>>
        /\ llmsTxt = ""
        /\ llmsFullTxt = ""

\* C17 happens: process() has returned for an empty scan result with
\* generateIndex set.
C17_Witness ==
    /\ pc = "empty"
    /\ generateIndex
    /\ Len(files) = 0

\* The lines of a text: s.split("\n"), cut at the positions of the line
\* feeds.
LinesOf(s) ==
    LET feeds == SelectSeq([i \in 1..Len(s) |-> i], LAMBDA i : Ch(s, i) = "\n")
        first(k) == IF k = 1 THEN 1 ELSE feeds[k - 1] + 1
        last(k) == IF k > Len(feeds) THEN Len(s) ELSE feeds[k] - 1
    IN  [k \in 1..(Len(feeds) + 1) |->
            IF first(k) > last(k) THEN "" ELSE SubSeq(s, first(k), last(k))]

\* The link line of a document, as the specification gives it.
LinkOf(doc) == "- [" \o doc.relativePath \o "](" \o doc.relativePath \o ")"

\* The lines between a header line and the next empty line.
SectionLines(lines, title) ==
    LET at == {i \in 1..Len(lines) : lines[i] = title}
    IN  IF at = {} THEN <<>>
        ELSE LET h == Min(at)
                 ends == {i \in (h + 1)..Len(lines) : lines[i] = ""}
             IN  SubSeq(lines, h + 1, (IF ends = {} THEN Len(lines) + 1 ELSE Min(ends)) - 1)

\* A run has written llms.txt and llms-full.txt.
OutputsWritten == pc \in {"written", "indexed"}

\* C18: llms.txt has the header Core Documentation exactly when index and
\* important together are not empty and the header Optional exactly when
\* other is not empty; the Core section lists the index documents and then
\* the important ones, the Optional section the other ones, one link line
\* each.
C18_SectionsExactlyWhenNonEmpty ==
    OutputsWritten =>
        LET lines == LinesOf(llmsTxt)
            core == ordered.index \o ordered.important
        IN  /\ Count(lines, "## Core Documentation") = (IF Len(core) > 0 THEN 1 ELSE 0)
            /\ Count(lines, "## Optional") = (IF Len(ordered.other) > 0 THEN 1 ELSE 0)
            /\ SectionLines(lines, "## Core Documentation")
                  = [i \in 1..Len(core) |-> LinkOf(core[i])]
            /\ SectionLines(lines, "## Optional")
                  = [i \in 1..Len(ordered.other) |-> LinkOf(ordered.other[i])]

\* C18 happens: llms.txt has been written for index and important
\* documents and no other document, so that only Optional is left out.
C18_Witness ==
    /\ OutputsWritten
    /\ Len(ordered.index) > 0
    /\ Len(ordered.important) > 0
    /\ Len(ordered.other) = 0

\* The lines of a text that are link lines.
LinkLinesOf(s) == SelectSeq(LinesOf(s), LAMBDA line : OccursAt(line, "- [", 1))

\* The text of a link line: what stands between "- [" and the first "](".
LinkText(line) ==
    SubSeq(line, 4, Min({i \in 1..Len(line) : OccursAt(line, "](", i)}) - 1)

\* The target of a link line: what stands between the first "](" and the
\* closing parenthesis at the end of the line.
LinkTarget(line) ==
    SubSeq(line, Min({i \in 1..Len(line) : OccursAt(line, "](", i)}) + 2, Len(line) - 1)

\* The relative paths of a list of documents.
PathsOf(docs) == [i \in 1..Len(docs) |-> docs[i].relativePath]

\* C19: reading back the link lines of llms.txt gives the relative paths of
\* index, important and other in this order, as many as there are
\* documents; the text and the target of each link are the relativePath.
C19_LinksRoundTrip ==
    OutputsWritten =>
        LET links == LinkLinesOf(llmsTxt)
            expected == PathsOf(ordered.index \o ordered.important \o ordered.other)
        IN  /\ Len(links) = Len(expected)
            /\ \A i \in 1..Len(links) :
                  /\ includes(links[i], "](")
                  /\ Ch(links[i], Len(links[i])) = ")"
                  /\ LinkText(links[i]) = expected[i]
                  /\ LinkTarget(links[i]) = expected[i]

\* C19 happens: llms.txt has been written for an index, an important and an
\* other document.
C19_Witness ==
    /\ OutputsWritten
    /\ Len(ordered.index) = 1
    /\ Len(ordered.important) = 1
    /\ Len(ordered.other) = 1

\* The paths of the sections of llms-full.txt: of the lines "## X", those
\* whose X is the relative path of a document.
SectionPathsOf(s) ==
    LET headings == SelectSeq(LinesOf(s), LAMBDA line :
                       /\ OccursAt(line, "## ", 1)
                       /\ From(line, 4) \in Range(PathsOf(ordered.all)))
    IN  [i \in 1..Len(headings) |-> From(headings[i], 4)]

\* C20: whenever process() has written its outputs, llms-full.txt has one
\* section per document of the ordered set, and the paths of its sections
\* are, in order, the paths of the links of llms.txt.
C20_FullFollowsIndexOrder ==
    OutputsWritten =>
        LET sectionPaths == SectionPathsOf(llmsFullTxt)
            links == LinkLinesOf(llmsTxt)
        IN  /\ Len(sectionPaths) = Len(documents)
            /\ \A i \in 1..Len(documents) : Count(sectionPaths, documents[i].relativePath) = 1
            /\ sectionPaths = [i \in 1..Len(links) |-> LinkText(links[i])]

\* C20 happens: process() has written the outputs, and the index files too,
\* for three documents of which the first read is in the bucket other and a
\* later one, with a second-level heading in its text, in the bucket
\* important.
C20_Witness ==
    /\ pc = "indexed"
    /\ Len(documents) = 3
    /\ documents[1].relativePath = "Zeta.md"
    /\ documents[3].relativePath = "docs/Setup.md"
    /\ Len(ordered.other) = 1
    /\ Len(ordered.important) >= 1

----------------------------------------------------------------------------
(* Statements about the stages of process()                               *)

\* The names of the index files of the output root.
IndexFileNames == {"index.json", "master-index.json"}

\* C21: with generateIndex false no index.json and no master-index.json is
\* ever written, and process() ends having written llms.txt and
\* llms-full.txt only; with generateIndex set, the index files are written
\* in a step of their own.
C21_IndexFilesOnlyWhenAsked ==
    /\ ~generateIndex =>
          /\ \A i \in 1..Len(written) : written[i] \notin IndexFileNames
          /\ pc # "indexed"
    /\ (~generateIndex /\ pc = "written") => written = <<"llms.txt", "llms-full.txt">>
    /\ (\E i \in 1..Len(written) : written[i] \in IndexFileNames) => generateIndex

\* C21 happens: process() has written both texts with generateIndex false.
C21_Witness ==
    /\ ~generateIndex
    /\ pc = "written"
    /\ written = <<"llms.txt", "llms-full.txt">>
    /\ Len(documents) >= 1

C27_StagesInSequence ==
    /\ (pos > 0 \/ documents # <<>>) =>
          /\ pc \notin {"start", "failed", "exited"}
          /\ files # <<>>
    /\ written # <<>> =>
          /\ pos = Len(files)
          /\ ordered = orderDocuments(documents)
          /\ Len(written) >= 2
          /\ written[1] = "llms.txt"
          /\ written[2] = "llms-full.txt"
    /\ \A i \in 1..Len(written) : written[i] \in IndexFileNames => i > 2

\* C27 happens: process() has gone through every stage, the index files
\* included, for more than one document.
C27_Witness ==
    /\ pc = "indexed"
    /\ Len(documents) >= 2
    /\ Len(written) = 4

----------------------------------------------------------------------------
(* Statements about the command line                                      *)

ValueOptions == {"--input", "-i", "--output", "-o", "--include", "--exclude"}

KnownFlags == {"--silent", "--generate-index"}

ExitingFlags == {"--help", "-h", "--version"}

\* How the scan of the arguments from the i-th on ends, as the statement
\* describes it: "error" at a dash-prefixed argument that is no option, or
\* at a value-taking option that is last or followed by an argument
\* beginning with a dash; "exit" at a help or version flag; "parsed"
\* otherwise.
RECURSIVE ClaimedEnd(_, _)
ClaimedEnd(list, i) ==
    IF i > Len(list) THEN "parsed"
    ELSE LET arg == list[i]
         IN  CASE arg \in ExitingFlags -> "exit"
               [] arg \in ValueOptions ->
                    IF i = Len(list) \/ Ch(list[i + 1], 1) = "-"
                    THEN "error"
                    ELSE ClaimedEnd(list, i + 2)
               [] arg \in KnownFlags -> ClaimedEnd(list, i + 1)
               [] OTHER ->
                    IF Ch(arg, 1) = "-" THEN "error" ELSE ClaimedEnd(list, i + 1)

\* C25: for every argument list whose scan ends at an unknown dash-prefixed
\* flag or at a value-taking option without a value, the command line
\* prints an error and exits with code 1, and the processor is never
\* constructed: no run, no scan, no file written.
C25_BadArgumentsExitBeforeConstruction ==
    /\ cliPc = "parsing" => pc = "idle"
    /\ (cliPc # "parsing" /\ ClaimedEnd(args, 1) = "error") =>
          /\ cliPc = "exited"
          /\ exitCode = 1
          /\ stderr # <<>>
          /\ OccursAt(stderr[1], "Error: ", 1)
          /\ pc = "idle"
          /\ scanPc = "idle"
          /\ files = <<>>
          /\ written = <<>>
          /\ ~outputMade

\* C25 happens: the command line has exited at --include followed by an
\* option, after a well-formed --input.
C25_Witness ==
    /\ cliPc = "exited"
    /\ args = <<"-i", "docs", "--include">>
    /\ exitCode = 1

----------------------------------------------------------------------------
(* Statements about the index files                                       *)

\* The DirectoryIndex this run has written into a directory.
WrittenIndex(dir) == indexFiles[dir].value

\* The sum of one field of the summaries of the first n DirectoryIndex
\* files this run has written.
RECURSIVE WrittenSum(_, _)
WrittenSum(n, field) ==
    IF n = 0 THEN 0
    ELSE WrittenIndex(writes[n]).summary[field] + WrittenSum(n - 1, field)

\* The sum of one field of the summaries of the first n entries of the
\* list `directories` of master-index.json.
RECURSIVE ListedSum(_, _)
ListedSum(n, field) ==
    IF n = 0 THEN 0
    ELSE master.directories[n].summary[field] + ListedSum(n - 1, field)

\* generateAll has succeeded: master-index.json is written.
IndexGenerated == indexPc = "done"

\* C22: after index generation has succeeded into an output root that
\* held no index.json, master-index.json counts as many directories as
\* DirectoryIndex files were written, and its totals of files, Markdown
\* files and sizes are the sums of the summaries of those files and of the
\* summaries of its own list of directories.
C22_MasterTotalsAreSums ==
    (IndexGenerated /\ stale = <<>>) =>
        LET n == Len(writes)
        IN  /\ Cardinality({writes[k] : k \in 1..n}) = n
            /\ master.totalDirectories = n
            /\ Len(master.directories) = n
            /\ master.totalFiles = WrittenSum(n, "totalFiles")
            /\ master.totalMarkdownFiles = WrittenSum(n, "markdownFiles")
            /\ master.totalSize = WrittenSum(n, "totalSize")
            /\ master.totalFiles = ListedSum(n, "totalFiles")
            /\ master.totalMarkdownFiles = ListedSum(n, "markdownFiles")
            /\ master.totalSize = ListedSum(n, "totalSize")

\* C22 happens: the master index is written for the tree "site" indexed
\* into itself, with several directories, files and Markdown files.
C22_Witness ==
    /\ IndexGenerated
    /\ stale = <<>>
    /\ tree = "site"
    /\ outputDir = InputDir
    /\ master.totalDirectories >= 4
    /\ master.totalMarkdownFiles >= 3
    /\ master.totalFiles > master.totalMarkdownFiles

\* The path of a directory as master-index.json gives it: relative to the
\* output root, "." for the root itself.
MasterPath(dir) == IF dir = outputDir THEN "." ELSE relative(outputDir, dir)

\* C29: the list `directories` of master-index.json has exactly one entry
\* for each directory this run wrote a DirectoryIndex for, and no other,
\* whatever index.json files the output root held before.
C29_MasterListsOnlyThisRun ==
    IndexGenerated =>
        /\ Len(master.directories) = Len(writes)
        /\ {master.directories[k].path : k \in 1..Len(master.directories)}
              = {MasterPath(writes[k]) : k \in 1..Len(writes)}

\* dir is the output root or lies below it.
UnderOutputRoot(dir) == dir = outputDir \/ OccursAt(dir, outputDir \o "/", 1)

\* The directories whose index.json the aggregation can open and finds
\* well-formed: readable, valid JSON, with a summary; directories below
\* one that cannot be listed are out of its reach.
WellFormedIndexes ==
    {dir \in DOMAIN indexFiles :
        /\ UnderOutputRoot(dir)
        /\ indexFiles[dir].kind = "json"
        /\ "summary" \in DOMAIN indexFiles[dir].value
        /\ ~\E d \in denied : OccursAt(dir, d \o "/", 1)}

\* The sum of one field of the summaries of the index.json files of a set
\* of directories.
RECURSIVE SumOverIndexes(_, _)
SumOverIndexes(S, field) ==
    IF S = {} THEN 0
    ELSE LET dir == CHOOSE d \in S : TRUE
         IN  indexFiles[dir].value.summary[field] + SumOverIndexes(S \ {dir}, field)

\* generateDirectoryIndex has returned to generateAll without an error:
\* the index of the root, the last one, is written.
DirectoriesIndexed == writes # <<>> /\ writes[Len(writes)] = outputDir

\* C23: once the directory indexes are written, generateMasterIndex
\* succeeds whatever index.json files are missing, unreadable or malformed
\* (not JSON, or JSON without a summary): they are skipped, and the totals
\* of master-index.json cover the well-formed files and no other.
C23_MalformedIndexesSkipped ==
    DirectoriesIndexed =>
        /\ indexPc # "failed"
        /\ IndexGenerated =>
              /\ master.totalDirectories = Cardinality(WellFormedIndexes)
              /\ {master.directories[k].path : k \in 1..Len(master.directories)}
                    = {MasterPath(dir) : dir \in WellFormedIndexes}
              /\ master.totalFiles = SumOverIndexes(WellFormedIndexes, "totalFiles")
              /\ master.totalMarkdownFiles = SumOverIndexes(WellFormedIndexes, "markdownFiles")
              /\ master.totalSize = SumOverIndexes(WellFormedIndexes, "totalSize")

\* The input directory a DirectoryIndex is the index of.
DirectoryOf(index) ==
    IF index.directory = "." THEN InputDir ELSE join(InputDir, index.directory)

\* The names of the children of one kind of a directory that the
\* exclusion patterns let through.
ChildNames(dir, kind) ==
    LET children == readdir(dir)
    IN  {children[k].name :
            k \in {j \in 1..Len(children) :
                      /\ children[j].kind = kind
                      /\ ~ClaimedExclude(children[j].name,
                                         relative(InputDir, join(dir, children[j].name)))}}

\* A DirectoryIndex lists the files and subdirectories of dir named, as
\* immediate children, and its summary agrees with its lists.
ListsExactly(index, dir, fileNames, subdirectoryNames) ==
    /\ Len(index.files) = Cardinality(fileNames)
    /\ {index.files[k].name : k \in 1..Len(index.files)} = fileNames
    /\ \A k \in 1..Len(index.files) :
          join(InputDir, index.files[k].path) = join(dir, index.files[k].name)
    /\ Len(index.subdirectories) = Cardinality(subdirectoryNames)
    /\ {index.subdirectories[k].name : k \in 1..Len(index.subdirectories)}
          = subdirectoryNames
    /\ \A k \in 1..Len(index.subdirectories) :
          join(InputDir, index.subdirectories[k].path)
              = join(dir, index.subdirectories[k].name)
    /\ index.summary.totalFiles = Len(index.files)
    /\ index.summary.totalSubdirectories = Len(index.subdirectories)
    /\ index.summary.markdownFiles
          = Cardinality({k \in 1..Len(index.files) : index.files[k].isMarkdown})
    /\ index.summary.totalSize = SumOfSizes(index.files)

\* C24: every DirectoryIndex, when it is written, lists exactly the files
\* and the subdirectories that are immediate children of its directory and
\* are not excluded, nothing deeper, and its summary gives the numbers of
\* files and subdirectories listed, the number of listed files marked
\* isMarkdown and the sum of the listed sizes.
C24_IndexListsImmediateChildren ==
    [][writes' # writes =>
          LET index == indexFiles'[writes'[Len(writes')]].value
              dir == DirectoryOf(index)
          IN  ListsExactly(index, dir, ChildNames(dir, "file"),
                           ChildNames(dir, "directory"))]_vars

\* C24 happens: the index of the root of the tree "site" is written under
\* the default patterns, with excluded and listed files and subdirectories,
\* Markdown files and others.
C24_Witness ==
    /\ tree = "site"
    /\ excludePatterns = DefaultExcludePatterns
    /\ outputDir = "/out"
    /\ DirectoriesIndexed
    /\ WrittenIndex("/out").summary.totalFiles >= 4
    /\ WrittenIndex("/out").summary.markdownFiles >= 2
    /\ WrittenIndex("/out").summary.markdownFiles < WrittenIndex("/out").summary.totalFiles
    /\ WrittenIndex("/out").summary.totalSubdirectories >= 3

\* The directories found at the start at or below the input root: those
\* of the input tree, and those an index.json was found in.
DirectoriesAtStart ==
    DOMAIN Listing[tree]
    \cup {dir \in DOMAIN stale : OccursAt(dir, InputDir \o "/", 1)}

\* The directories found at the start that no exclusion prunes.
NotPruned ==
    {dir \in DirectoriesAtStart :
        /\ ~UnderExcludedDirectory(dir)
        /\ dir = InputDir \/ ~ClaimedExclude(basename(dir), relative(InputDir, dir))}

\* C28: wherever the output root is, apart from the input root, equal to
\* it or inside it, generateDirectoryIndex never goes into a directory it
\* has made itself and is called at most once for a directory; when it
\* has returned, it has been called for exactly the directories found at
\* the start that are not pruned, and has written one index.json for each.
C28_EachDirectoryIndexedOnce ==
    /\ \A k \in 1..Len(visits) : visits[k] \notin dirs
    /\ Cardinality({visits[k] : k \in 1..Len(visits)}) = Len(visits)
    /\ DirectoriesIndexed =>
          /\ {visits[k] : k \in 1..Len(visits)} = NotPruned
          /\ Len(writes) = Len(visits)
          /\ Cardinality({writes[k] : k \in 1..Len(writes)}) = Len(writes)

\* The output directories of the calls of generateDirectoryIndex in
\* progress: that of the innermost call and those of the calls awaiting it.
InProgress == {calls[k].outputDir : k \in 1..Len(calls)}

\* C30: index files are written bottom-up.  In every state each indexPath
\* in the list of subdirectories of a DirectoryIndex of this run names an
\* index.json this run wrote before it; a DirectoryIndex is written only
\* when each subdirectory that is not excluded has its own; and when the
\* indexing of a directory fails, no index.json is written for it or for a
\* directory above it, then or later, and no master-index.json.
C30_IndexesWrittenBottomUp ==
    /\ [](\A k \in 1..Len(writes) :
            LET index == WrittenIndex(writes[k])
            IN  \A i \in 1..Len(index.subdirectories) :
                    LET subdirectory == index.subdirectories[i]
                        dir == join(outputDir, subdirectory.path)
                    IN  /\ subdirectory.indexPath = join(subdirectory.path, "index.json")
                        /\ dir \in DOMAIN indexFiles
                        /\ \E j \in 1..(k - 1) : writes[j] = dir)
    /\ []((indexPc = "failed" /\ ~DirectoriesIndexed) =>
             /\ master = <<>>
             /\ outputDir \notin {writes[k] : k \in 1..Len(writes)})
    /\ [][writes' # writes =>
             LET out == writes'[Len(writes')]
                 dir == DirectoryOf(indexFiles'[out].value)
             IN  \A name \in ChildNames(dir, "directory") :
                     \E j \in 1..Len(writes) : writes[j] = join(out, name)]_vars
    /\ [][(indexPc = "index" /\ indexPc' = "failed") =>
             InProgress \cap {writes'[k] : k \in 1..Len(writes')} = {}]_vars
    /\ [][indexPc = "failed" => (writes' = writes /\ master' = master)]_vars

\* C30 happens: the indexing of a subdirectory has failed after other
\* indexes were written, those of two levels among them.
C30_Witness ==
    /\ indexPc = "failed"
    /\ ~DirectoriesIndexed
    /\ denied = {"/in/locked"}
    /\ excludePatterns = {}
    /\ outputDir = "/out"
    /\ "/out/subdir" \in {writes[k] : k \in 1..Len(writes)}
    /\ Len(WrittenIndex("/out/subdir").subdirectories) >= 2

====
